---- MODULE Spec2Model ----
(***************************************************************************)
(* A model of the SmugMug bulk downloader (src/download.py): the per-album *)
(* duplicate/collision pre-processing loop, the concurrent download tasks  *)
(* of one album with the files they check, create and remove, the run      *)
(* counters and audit logs, the album loop of a folder, fetch_images'      *)
(* pagination loop, the walk of download_all and process_folder over a     *)
(* tree of folders, the audit files written at its end, and the two        *)
(* metadata helpers.                                                       *)
(*                                                                         *)
(* Strings of the program (file names, image keys, URIs, album names) are  *)
(* sequences of one-character strings, so that the program's string        *)
(* operations (Path.stem, Path.suffix, f-strings, replace, strip) are      *)
(* computed as the program computes them.                                  *)
(***************************************************************************)
EXTENDS Integers, Sequences, FiniteSets, TLC

(***************************************************************************)
(* Bounds of the model.                                                    *)
(***************************************************************************)
\* Longest audit log at the end of the walk in SpecAudit.
MaxLog == 2

\* Longest image sequence given to the pre-processing loop in SpecPlan.
MaxImages == 3

\* Most image records the albums of the folder serve in one run of Spec.
MaxRunImages == 3

\* Longest chain of pages an album's listing is served in, in SpecFetch.
MaxPages == 3

\* SpecSanitize: the number of calls of sanitize_filename in a row, and the number
\* of characters of a name after its run of letters.
MaxCalls == 2

MaxTail == 3

\* Plan entries of the album of SpecPool: more than the executor has workers.
MaxPoolImages == 6

(***************************************************************************)
(* String helpers.                                                         *)
(***************************************************************************)
Digit == <<"0", "1", "2", "3", "4", "5", "6", "7", "8", "9">>

RECURSIVE DecStr(_)
\* str(n) / f"{n}" for a non-negative integer n.
DecStr(n) == IF n < 10 THEN <<Digit[n + 1]>>
             ELSE DecStr(n \div 10) \o <<Digit[(n % 10) + 1]>>

\* 1-based position of the last "." of name, 0 when there is none (str.rfind).
LastDot(name) ==
    LET dots == {i \in 1..Len(name) : name[i] = "."}
    IN  IF dots = {} THEN 0 ELSE CHOOSE i \in dots : \A j \in dots : j <= i

\* pathlib: a suffix exists when the last dot is neither the first nor the last
\* character of the name.
HasSuffix(name) == LastDot(name) > 1 /\ LastDot(name) < Len(name)

\* Path(name).suffix
PathSuffix(name) ==
    IF HasSuffix(name) THEN SubSeq(name, LastDot(name), Len(name)) ELSE <<>>

\* Path(name).stem
PathStem(name) ==
    IF HasSuffix(name) THEN SubSeq(name, 1, LastDot(name) - 1) ELSE name

\* A variant of Suffixed that puts the counter after the extension.
Suffixed_AfterExtension(base_name, counter, extension) ==
    base_name \o extension \o <<"_">> \o DecStr(counter)

\* f"{base_name}_{counter}{extension}"
Suffixed(base_name, counter, extension) ==
    base_name \o <<"_">> \o DecStr(counter) \o extension

\* sanitize_filename: invalid_chars = '<>:"/\\|?*'
InvalidChars == {"<", ">", ":", "\"", "/", "\\", "|", "?", "*"}

\* sanitize_filename: the truncation length.
MaxNameLen == 200

\* ThreadPoolExecutor(max_workers=5)
MaxWorkers == 5

\* name.replace(char, '_') for every invalid character.
ReplaceInvalid(name) ==
    [i \in 1..Len(name) |-> IF name[i] \in InvalidChars THEN "_" ELSE name[i]]

\* name.strip('. ')
StripDotsSpaces(name) ==
    LET keep == {i \in 1..Len(name) : name[i] \notin {".", " "}}
    IN  IF keep = {} THEN <<>>
        ELSE SubSeq(name, CHOOSE i \in keep : \A j \in keep : i <= j,
                          CHOOSE i \in keep : \A j \in keep : j <= i)

\* A variant of Truncate that cuts nothing.
Truncate_Off(name) == name

\* name[:200] when len(name) > 200
Truncate(name) ==
    IF Len(name) > MaxNameLen THEN SubSeq(name, 1, MaxNameLen) ELSE name

\* A variant of sanitize_filename that returns an empty name as it is.
sanitize_filename_NoPlaceholder(name) == Truncate(StripDotsSpaces(ReplaceInvalid(name)))

sanitize_filename(name) ==
    LET cut == Truncate(StripDotsSpaces(ReplaceInvalid(name)))
    IN  IF cut # <<>> THEN cut ELSE <<"u", "n", "n", "a", "m", "e", "d">>

\* image_path.with_suffix('.txt')
WithSuffixTxt(name) == PathStem(name) \o <<".", "t", "x", "t">>

(***************************************************************************)
(* Image records of the remote catalog.  ImageKey and Uri are <<>> when    *)
(* absent or empty (the code tests them with `if not ...`); FileName may   *)
(* be absent altogether.                                                   *)
(***************************************************************************)
NoName == [present |-> FALSE, name |-> <<>>]
Name(s) == [present |-> TRUE, name |-> s]

A_JPG  == <<"a", ".", "j">>
A2_JPG == <<"a", "_", "2", ".", "j">>

ImageKeys == {<<"k">>, <<"m">>, <<"n">>, <<"u", "r", "i", "_", "u">>}
ImageUris == {<<"u">>}

Identities ==
    [ImageKey : ImageKeys, Uri : {<<>>}]
      \cup [ImageKey : {<<>>}, Uri : ImageUris \cup {<<>>}]

FileNames == {Name(A_JPG), Name(A2_JPG), NoName}

\* The records given to the pre-processing loop in SpecPlan.  Title stands for
\* the metadata fields of these records: they hold no Caption and no Keywords.
ImageRecords ==
    {[ImageKey |-> id.ImageKey, Uri |-> id.Uri, FileName |-> fn, Title |-> <<>>] :
        id \in Identities, fn \in FileNames}

RECURSIVE SeqsUpTo(_, _)
\* All sequences over S of length 0..n.
SeqsUpTo(S, n) ==
    IF n = 0 THEN {<<>>}
    ELSE LET shorter == SeqsUpTo(S, n - 1)
         IN  shorter \cup {Append(s, x) : s \in {q \in shorter : Len(q) = n - 1}, x \in S}

VARIABLES
    remote,             \* what the API serves: the folder and its albums
    walk,               \* download_all and the process_folder calls in progress
    resolving,          \* get_image_download_url: the call's argument, position and result
    sanitizing,         \* sanitize_filename: the name given to it and what its calls returned
    saving,             \* save_image_metadata / save_album_metadata: the arguments of the
                        \*   call and how often it was made
    pc,                 \* position of the main thread
    albums,             \* process_folder: albums (the folder's album listing)
    album_i,            \* process_folder: 1-based position of `album` in albums
    album_name,         \* process_album: album_name
    album_path,         \* process_album: album_path, relative to base_path
    url,                \* fetch_images: url (a page number of the album, 0 for None)
    first_request,      \* fetch_images: first_request
    fetch_error,        \* fetch_images: how the loop was left ("none", "status", "exception")
    requested,          \* history: the pages fetch_images has sent a request for, in order
    images,             \* fetch_images / process_album: images
    idx,                \* process_album: idx of the pre-processing loop (0-based)
    seen_image_keys,    \* process_album: {unique_id: original_filename}
    used_filenames,     \* process_album: {final_filename: unique_id}
    processed_images,   \* process_album: [(image, final_filename)]
    futures,            \* process_album: number of futures submitted so far
    completed,          \* process_album: the futures as_completed has yielded
    errors_logged,      \* the "[Error: ...]" lines process_album has logged (line 423)
    task,               \* the download_image call of each future: its locals and position
    entry,              \* history: counters, logs' lengths and files when the album's
                        \*   downloads were dispatched
    fs,                 \* the files under base_path: path -> file
    total_downloaded,
    total_skipped,
    total_images,
    total_albums,
    total_folders,
    total_metadata_saved,
    total_album_metadata_saved,
    total_duplicates,
    total_renamed,
    failed_downloads,
    duplicate_log,
    renamed_files,
    skipped_log

\* The locals of the pre-processing loop and what it reports.
namingVars == <<idx, seen_image_keys, used_filenames, processed_images,
                total_duplicates, total_renamed, duplicate_log, renamed_files>>

\* The locals of fetch_images.
fetchVars == <<url, first_request, fetch_error, images, requested>>

\* The album loop of process_folder and the head of process_album.
walkVars == <<albums, album_i, album_name, album_path, total_folders, total_albums,
              total_images, total_album_metadata_saved>>

\* The executor of process_album.
poolVars == <<futures, completed, errors_logged, task, entry>>

\* What the download tasks share.
sharedVars == <<fs, total_downloaded, total_skipped, total_metadata_saved,
                failed_downloads, skipped_log>>

vars == <<remote, walk, resolving, sanitizing, saving, pc, namingVars, fetchVars, walkVars, poolVars, sharedVars>>

(***************************************************************************)
(* The files under base_path.  A path is the tree it lies in (the primary  *)
(* tree or Skipped_Images), the directory relative to that tree's root and *)
(* the file name.  A file records the open() that created it (ino), which  *)
(* call wrote it last (by) and what it holds (data).                       *)
(***************************************************************************)
Primary(dir, name) == [tree |-> "primary", dir |-> dir, name |-> name]

\* A variant of Skipped that stays in the primary tree.
Skipped_InPlace(dir, name) == Primary(dir, name)

\* self.base_path / 'Skipped_Images' / album_subfolder / name
Skipped(dir, name) == [tree |-> "Skipped_Images", dir |-> dir, name |-> name]

\* The writer of the files that exist before the run.
Before == <<0, 0>>

OldFile == [ino |-> Before, by |-> Before, data |-> "old"]

\* path.exists()
Exists(files, path) == path \in DOMAIN files

\* The files after `path` is made to hold `file`.
WithFile(files, path, file) ==
    [q \in DOMAIN files \cup {path} |-> IF q = path THEN file ELSE files[q]]

\* open(path, 'w' / 'wb') by writer w: creates the file, or truncates the one there.
Opened(files, path, w, data) ==
    WithFile(files, path,
             [ino |-> IF Exists(files, path) THEN files[path].ino ELSE w,
              by |-> w, data |-> data])

\* A variant of Unlinked that leaves the file in place.
Unlinked_Kept(files, path) == files

\* path.unlink()
Unlinked(files, path) == [q \in DOMAIN files \ {path} |-> files[q]]

\* The path of a download_path with its name replaced.
Sibling(path, name) == [path EXCEPT !.name = name]

(***************************************************************************)
(* process_folder, lines 440-474: the folder's directory, its counter and  *)
(* its album listing.                                                      *)
(***************************************************************************)
\* No download_all is in progress: process_folder works on the one folder served.
NoWalk ==
    [folders |-> <<>>, folder_i |-> 0, stack |-> <<>>, visited |-> <<>>,
     unlisted |-> {}, exit_status |-> "running"]

\* The frame of the innermost process_folder call.
Top == walk.stack[Len(walk.stack)]

\* process_folder: folder
Folder == IF walk.stack = <<>> THEN remote ELSE Top.folder

\* process_folder: parent_path, relative to base_path.
ParentPath == IF walk.stack = <<>> THEN <<>> ELSE Top.parent_path

\* folder_path, relative to base_path.
FolderPath == ParentPath \o <<sanitize_filename(Folder.Name)>>

\* History: the folder process_folder was called on, where its directory is
\* and how its album listing was answered.
Entered(status) ==
    IF walk.stack = <<>>
    THEN walk
    ELSE [walk EXCEPT !.visited =
              Append(@, [Name |-> Folder.Name, path |-> FolderPath, albums |-> status])]

\* A variant of FolderStart in which a failed album listing ends the run.
FolderStart_Raised ==
    /\ pc = "folder"
    /\ total_folders' = total_folders + 1
    /\ \E status \in {"200", "error"} :
          /\ albums' = IF status = "200" THEN Folder.Album ELSE <<>>
          /\ walk' = IF status = "200"
                     THEN Entered(status)
                     ELSE [Entered(status) EXCEPT !.exit_status = "1"]
          /\ pc' = IF status = "200" THEN "albums" ELSE "exit"
    /\ album_i' = 1
    /\ UNCHANGED <<remote, resolving, sanitizing, saving, album_name, album_path, total_albums, total_images,
                   total_album_metadata_saved, namingVars, fetchVars, poolVars,
                   sharedVars>>

FolderStart ==
    /\ pc = "folder"
    /\ total_folders' = total_folders + 1
    /\ \E status \in {"200", "error"} :
          /\ albums' = IF status = "200" THEN Folder.Album ELSE <<>>
          /\ walk' = Entered(status)
    /\ album_i' = 1
    /\ pc' = "albums"
    /\ UNCHANGED <<remote, resolving, sanitizing, saving, album_name, album_path, total_albums, total_images,
                   total_album_metadata_saved, namingVars, fetchVars, poolVars,
                   sharedVars>>

\* History: the album whose directory process_album has made (line 335).
Materialized(album, path) ==
    IF walk.stack = <<>>
    THEN walk
    ELSE [walk EXCEPT !.visited = Append(@, [Name |-> album.Name, path |-> path])]

\* The end of `for album in albums` of the one folder served, which has no
\* subfolders: process_folder returns.
FolderDone ==
    /\ pc = "albums"
    /\ album_i > Len(albums)
    /\ pc' = "done"
    /\ UNCHANGED <<remote, walk, resolving, sanitizing, saving, walkVars, namingVars, fetchVars, poolVars, sharedVars>>

(***************************************************************************)
(* save_album_metadata, lines 180-212.                                     *)
(***************************************************************************)
\* name.replace(' ', '_')
SpacesToUnderscores(name) ==
    [i \in 1..Len(name) |-> IF name[i] = " " THEN "_" ELSE name[i]]

\* What the two metadata helpers write (lines 204-209, 234-239): of `fields`,
\* those the record holds a value for (.get(field, '') is not empty), each as
\* a labelled line, in the order of `fields`.
Sidecar(info, fields) ==
    LET Field(k) == IF k \in DOMAIN info THEN info[k] ELSE <<>>
        Label(k) == IF k = "Name" THEN "Gallery Title"
                    ELSE IF k = "Description" THEN "Gallery Description" ELSE k
        present == SelectSeq(fields, LAMBDA k : Field(k) # <<>>)
    IN  [i \in DOMAIN present |-> <<Label(present[i]), Field(present[i])>>]

AlbumMetadataPath(album, path) ==
    Primary(path, sanitize_filename(SpacesToUnderscores(album.Name))
                    \o <<".", "t", "x", "t">>)

\* Whether save_album_metadata writes the file.
AlbumMetadataWritten(files, album, path) ==
    /\ ~Exists(files, AlbumMetadataPath(album, path))
    /\ Sidecar(album, <<"Name", "Description", "Keywords">>) # <<>>

(***************************************************************************)
(* process_album, lines 324-343: the album without a Uri, the album's      *)
(* directory, its metadata file, and the start of fetch_images.            *)
(***************************************************************************)
\* A variant of AlbumStart that makes the directory of an album without a Uri.
AlbumStart_NoUriTest ==
    /\ pc = "albums"
    /\ album_i <= Len(albums)
    /\ LET album == albums[album_i]
           path == FolderPath \o <<sanitize_filename(album.Name)>>
       IN  IF album.Uri = <<>>
           THEN /\ album_i' = album_i + 1
                /\ walk' = Materialized(album, path)
                /\ UNCHANGED <<pc, album_name, album_path, fs,
                               total_album_metadata_saved, fetchVars>>
           ELSE /\ album_name' = album.Name
                /\ walk' = Materialized(album, path)
                /\ album_path' = path
                /\ IF AlbumMetadataWritten(fs, album, path)
                   THEN /\ fs' = Opened(fs, AlbumMetadataPath(album, path),
                                        <<album_i, 0>>,
                                        Sidecar(album, <<"Name", "Description", "Keywords">>))
                        /\ total_album_metadata_saved' = total_album_metadata_saved + 1
                   ELSE UNCHANGED <<fs, total_album_metadata_saved>>
                /\ images' = <<>>
                /\ url' = 1
                /\ first_request' = TRUE
                /\ requested' = <<>>
                /\ fetch_error' = "none"
                /\ pc' = "fetch"
                /\ UNCHANGED album_i
    /\ UNCHANGED <<remote, resolving, sanitizing, saving, albums, total_folders, total_albums, total_images,
                   namingVars, poolVars, total_downloaded, total_skipped,
                   total_metadata_saved, failed_downloads, skipped_log>>

AlbumStart ==
    /\ pc = "albums"
    /\ album_i <= Len(albums)
    /\ LET album == albums[album_i]
           path == FolderPath \o <<sanitize_filename(album.Name)>>
       IN  IF album.Uri = <<>>
           THEN /\ album_i' = album_i + 1
                /\ UNCHANGED <<pc, walk, album_name, album_path, fs,
                               total_album_metadata_saved, fetchVars>>
           ELSE /\ album_name' = album.Name
                /\ walk' = Materialized(album, path)
                /\ album_path' = path
                /\ IF AlbumMetadataWritten(fs, album, path)
                   THEN /\ fs' = Opened(fs, AlbumMetadataPath(album, path),
                                        <<album_i, 0>>,
                                        Sidecar(album, <<"Name", "Description", "Keywords">>))
                        /\ total_album_metadata_saved' = total_album_metadata_saved + 1
                   ELSE UNCHANGED <<fs, total_album_metadata_saved>>
                /\ images' = <<>>
                /\ url' = 1
                /\ first_request' = TRUE
                /\ requested' = <<>>
                /\ fetch_error' = "none"
                /\ pc' = "fetch"
                /\ UNCHANGED album_i
    /\ UNCHANGED <<remote, resolving, sanitizing, saving, albums, total_folders, total_albums, total_images,
                   namingVars, poolVars, total_downloaded, total_skipped,
                   total_metadata_saved, failed_downloads, skipped_log>>

(***************************************************************************)
(* fetch_images, lines 91-117: one iteration of `while url`.  The request  *)
(* for a page returns status 200 with the page, returns another status, or *)
(* raises.                                                                 *)
(***************************************************************************)
\* The pages the API serves for the album being processed.
Pages == albums[album_i].pages

\* A variant of AfterFetchFailure in which the failure leaves fetch_images as an
\* exception.
AfterFetchFailure_Raised == "crashed"

\* Where fetch_images goes after a failed request: `break`, then `return images`.
AfterFetchFailure == "fetched"

\* A variant of Extended that keeps only the page just received.
Extended_Replaced(list, page) == page.AlbumImage

\* images.extend(data.get('AlbumImage', []))
Extended(list, page) == list \o page.AlbumImage

\* The url after a page: its Pages.NextPage cursor, or None (0).
NextUrl(page) == page.NextPage

FetchPage ==
    /\ pc = "fetch"
    /\ url # 0
    /\ requested' = Append(requested, url)
    /\ \E response \in {"200", "status", "exception"} :
          CASE response = "200" ->
                 /\ images' = Extended(images, Pages[url])
                 /\ url' = NextUrl(Pages[url])
                 /\ first_request' = FALSE
                 /\ pc' = IF NextUrl(Pages[url]) = 0 THEN "fetched" ELSE "fetch"
                 /\ UNCHANGED fetch_error
            [] response = "status" ->
                 /\ fetch_error' = "status"
                 /\ first_request' = FALSE
                 /\ pc' = AfterFetchFailure
                 /\ UNCHANGED <<images, url>>
            [] response = "exception" ->
                 /\ fetch_error' = "exception"
                 /\ pc' = AfterFetchFailure
                 /\ UNCHANGED <<images, url, first_request>>
    /\ UNCHANGED <<remote, walk, resolving, sanitizing, saving, walkVars, namingVars, poolVars, sharedVars>>

(***************************************************************************)
(* process_album, lines 343-355: the counters and the empty album.         *)
(***************************************************************************)
\* A variant of AlbumFetched that counts one image per album.
AlbumFetched_OnePerAlbum ==
    /\ pc = "fetched"
    /\ total_images' = total_images + 1
    /\ total_albums' = total_albums + 1
    /\ pc' = IF images = <<>> THEN "returned" ELSE "pre"
    /\ idx' = 0
    /\ seen_image_keys' = <<>>
    /\ used_filenames' = <<>>
    /\ processed_images' = <<>>
    /\ UNCHANGED <<remote, walk, resolving, sanitizing, saving, albums, album_i, album_name, album_path, total_folders,
                   total_album_metadata_saved, total_duplicates, total_renamed,
                   duplicate_log, renamed_files, fetchVars, poolVars, sharedVars>>

AlbumFetched ==
    /\ pc = "fetched"
    /\ total_images' = total_images + Len(images)
    /\ total_albums' = total_albums + 1
    /\ pc' = IF images = <<>> THEN "returned" ELSE "pre"
    /\ idx' = 0
    /\ seen_image_keys' = <<>>
    /\ used_filenames' = <<>>
    /\ processed_images' = <<>>
    /\ UNCHANGED <<remote, walk, resolving, sanitizing, saving, albums, album_i, album_name, album_path, total_folders,
                   total_album_metadata_saved, total_duplicates, total_renamed,
                   duplicate_log, renamed_files, fetchVars, poolVars, sharedVars>>

(***************************************************************************)
(* process_album, lines 359-401: one iteration of the pre-processing loop. *)
(***************************************************************************)
\* image.get('FileName', f"image_{image_key if image_key else idx}")
OriginalFilename(image, i) ==
    IF image.FileName.present THEN image.FileName.name
    ELSE <<"i", "m", "a", "g", "e", "_">>
           \o (IF image.ImageKey # <<>> THEN image.ImageKey ELSE DecStr(i))

\* unique_id: the ImageKey, else "uri_" + Uri, else "idx_" + idx.
UniqueId(image, i) ==
    IF image.ImageKey # <<>> THEN image.ImageKey
    ELSE IF image.Uri # <<>> THEN <<"u", "r", "i", "_">> \o image.Uri
    ELSE <<"i", "d", "x", "_">> \o DecStr(i)

\* A variant of FirstFree that never advances the counter.
FirstFree_NoLoop(base_name, extension, used, counter) == counter

RECURSIVE FirstFree(_, _, _, _)
\* counter = 2; while f"{base_name}_{counter}{extension}" in used: counter += 1
FirstFree(base_name, extension, used, counter) ==
    IF Suffixed(base_name, counter, extension) \in used
    THEN FirstFree(base_name, extension, used, counter + 1)
    ELSE counter

\* final_filename of an image that is not a true duplicate.
FinalFilename(original_filename, used) ==
    IF original_filename \in used
    THEN LET base_name == PathStem(original_filename)
             extension == PathSuffix(original_filename)
         IN  Suffixed(base_name, FirstFree(base_name, extension, used, 2), extension)
    ELSE original_filename

\* A variant of IsTrueDuplicate that never recognises a duplicate.
IsTrueDuplicate_Never(unique_id, seen) == FALSE

\* `if unique_id in seen_image_keys`
IsTrueDuplicate(unique_id, seen) == unique_id \in DOMAIN seen

PreprocessStep ==
    /\ pc = "pre"
    /\ idx < Len(images)
    /\ LET image == images[idx + 1]
           original_filename == OriginalFilename(image, idx)
           unique_id == UniqueId(image, idx)
       IN  IF IsTrueDuplicate(unique_id, seen_image_keys)
           THEN /\ total_duplicates' = total_duplicates + 1
                /\ duplicate_log' = Append(duplicate_log,
                       [unique_id |-> unique_id, filename |-> original_filename,
                        album |-> album_name,
                        original_file |-> seen_image_keys[unique_id]])
                /\ UNCHANGED <<seen_image_keys, used_filenames, processed_images,
                               total_renamed, renamed_files>>
           ELSE LET final_filename ==
                        FinalFilename(original_filename, DOMAIN used_filenames)
                IN  /\ IF original_filename \in DOMAIN used_filenames
                       THEN /\ total_renamed' = total_renamed + 1
                            /\ renamed_files' = Append(renamed_files,
                                   [original |-> original_filename,
                                    renamed |-> final_filename,
                                    album |-> album_name])
                       ELSE UNCHANGED <<total_renamed, renamed_files>>
                    /\ seen_image_keys' =
                           [k \in DOMAIN seen_image_keys \cup {unique_id} |->
                               IF k = unique_id THEN original_filename
                               ELSE seen_image_keys[k]]
                    /\ used_filenames' =
                           [f \in DOMAIN used_filenames \cup {final_filename} |->
                               IF f = final_filename THEN unique_id
                               ELSE used_filenames[f]]
                    /\ processed_images' = Append(processed_images,
                           [image |-> image, final_filename |-> final_filename,
                            pos |-> idx])
                    /\ UNCHANGED <<total_duplicates, duplicate_log>>
    /\ idx' = idx + 1
    /\ UNCHANGED <<remote, walk, resolving, sanitizing, saving, pc, fetchVars, walkVars, poolVars, sharedVars>>

(***************************************************************************)
(* process_album, lines 403-423: the executor.  Every plan entry is        *)
(* submitted, in plan order, before the first result is looked at; the     *)
(* workers start on the tasks while the main thread is still submitting.   *)
(***************************************************************************)
\* The history variable before any album has dispatched its downloads.
NoEntry == [total_downloaded |-> 0, total_skipped |-> 0, failed_downloads |-> 0,
            skipped_log |-> 0, fs |-> <<>>]

NoError == [type |-> "none", status_code |-> 0]

\* The call download_image(image, album_path / final_filename, album_name), waiting
\* in the executor's queue.
QueuedTask(entry_, path) ==
    [pc |-> "queued",
     image |-> entry_.image,
     filename |-> entry_.final_filename,                  \* filename = download_path.name
     original_download_path |-> Primary(path, entry_.final_filename),
     download_path |-> Primary(path, entry_.final_filename),
     counter |-> 0,
     loaded |-> 0,           \* the counter value read by a `+= 1` not yet stored
     ino |-> Before,         \* the file the task holds open
     error |-> NoError,      \* the exception the except clauses caught
     result |-> "none"]      \* "True", "False", or "raised" for an exception

\* A variant of PreprocessDone that starts the executor once one image is planned.
PreprocessDone_Early ==
    /\ pc = "pre"
    /\ idx >= 1
    /\ pc' = IF processed_images = <<>> THEN "returned" ELSE "submit"
    /\ futures' = 0
    /\ completed' = {}
    /\ task' = <<>>
    /\ UNCHANGED errors_logged
    /\ entry' = [total_downloaded |-> total_downloaded,
                 total_skipped |-> total_skipped,
                 failed_downloads |-> Len(failed_downloads),
                 skipped_log |-> Len(skipped_log),
                 fs |-> fs]
    /\ UNCHANGED <<remote, walk, resolving, sanitizing, saving, walkVars, namingVars, fetchVars, sharedVars>>

PreprocessDone ==
    /\ pc = "pre"
    /\ idx = Len(images)
    /\ pc' = IF processed_images = <<>> THEN "returned" ELSE "submit"
    /\ futures' = 0
    /\ completed' = {}
    /\ task' = <<>>
    /\ UNCHANGED errors_logged
    /\ entry' = [total_downloaded |-> total_downloaded,
                 total_skipped |-> total_skipped,
                 failed_downloads |-> Len(failed_downloads),
                 skipped_log |-> Len(skipped_log),
                 fs |-> fs]
    /\ UNCHANGED <<remote, walk, resolving, sanitizing, saving, walkVars, namingVars, fetchVars, sharedVars>>

Submit ==
    /\ pc = "submit"
    /\ futures < Len(processed_images)
    /\ task' = Append(task, QueuedTask(processed_images[futures + 1], album_path))
    /\ futures' = futures + 1
    /\ pc' = IF futures + 1 = Len(processed_images) THEN "wait" ELSE "submit"
    /\ UNCHANGED <<remote, walk, resolving, sanitizing, saving, walkVars, namingVars, fetchVars, completed, errors_logged,
                   entry, sharedVars>>

\* A variant of Caught that lets a task's exception escape process_album.
Caught_Not(result) == result # "raised"

\* try: future.result() / except Exception: every outcome of a task is absorbed.
Caught(result) == TRUE

\* as_completed yields a finished future; its result is read inside try/except.
Collect(t) ==
    /\ pc = "wait"
    /\ t \in 1..Len(task)
    /\ t \notin completed
    /\ task[t].pc = "done"
    /\ completed' = completed \cup {t}
    /\ pc' = IF Caught(task[t].result) THEN "wait" ELSE "crashed"
    /\ errors_logged' = IF task[t].result = "raised" /\ Caught(task[t].result)
                        THEN errors_logged + 1 ELSE errors_logged
    /\ UNCHANGED <<remote, walk, resolving, sanitizing, saving, walkVars, namingVars, fetchVars, futures, task, entry,
                   sharedVars>>

\* A variant of AlbumReturn that does not wait for the futures.
AlbumReturn_NoWait ==
    /\ pc = "wait"
    /\ pc' = "returned"
    /\ UNCHANGED <<remote, walk, resolving, sanitizing, saving, walkVars, namingVars, fetchVars, poolVars,
                   sharedVars>>

\* The end of the `with ThreadPoolExecutor` block: process_album returns.
AlbumReturn ==
    /\ pc = "wait"
    /\ completed = 1..Len(task)
    /\ pc' = "returned"
    /\ UNCHANGED <<remote, walk, resolving, sanitizing, saving, walkVars, namingVars, fetchVars, poolVars, sharedVars>>

\* process_folder, lines 469-470: back in `for album in albums`; the locals of the
\* finished process_album call are gone.
NextAlbum ==
    /\ pc = "returned"
    /\ pc' = "albums"
    /\ album_i' = album_i + 1
    /\ album_name' = <<>>
    /\ album_path' = <<>>
    /\ url' = 0
    /\ first_request' = FALSE
    /\ requested' = <<>>
    /\ fetch_error' = "none"
    /\ images' = <<>>
    /\ idx' = 0
    /\ seen_image_keys' = <<>>
    /\ used_filenames' = <<>>
    /\ processed_images' = <<>>
    /\ futures' = 0
    /\ completed' = {}
    /\ task' = <<>>
    /\ entry' = NoEntry
    /\ UNCHANGED errors_logged
    /\ UNCHANGED <<remote, walk, resolving, sanitizing, saving, albums, total_folders, total_albums, total_images,
                   total_album_metadata_saved, total_duplicates, total_renamed,
                   duplicate_log, renamed_files, sharedVars>>

(***************************************************************************)
(* download_all, lines 507-647, and the subfolder half of process_folder,  *)
(* lines 476-498.  The process_folder calls in progress are the frames of  *)
(* walk.stack; a frame keeps what the call still needs once its albums are *)
(* done: the folder, parent_path, subfolders and the position in them.     *)
(***************************************************************************)
\* The frame of process_folder(folder, parent_path) when it is called.
Frame(folder, parent_path) ==
    [folder |-> folder, parent_path |-> parent_path, subfolders |-> <<>>, sub_i |-> 0]

\* Lines 510-521: the request for the user's top-level folders.  Any status
\* but 200 is logged and download_all returns (line 518); an exception of the
\* request or of resp.json() is caught at line 643, which ends in sys.exit(1).
RootFetch ==
    /\ pc = "root"
    /\ \E response \in {"200", "status", "exception"} :
          walk' = IF response = "200"
                  THEN [walk EXCEPT !.folders = remote.Folder, !.folder_i = 1]
                  ELSE IF response = "status"
                       THEN [walk EXCEPT !.exit_status = "0"]
                       ELSE [walk EXCEPT !.exit_status = "1"]
    /\ pc' = IF walk'.exit_status = "running" THEN "folders" ELSE "exit"
    /\ UNCHANGED <<remote, resolving, sanitizing, saving, walkVars, namingVars, fetchVars, poolVars,
                   sharedVars>>

\* Lines 526-527: `for folder in folders: self.process_folder(folder, self.base_path)`.
TopFolder ==
    /\ pc = "folders"
    /\ walk.stack = <<>>
    /\ walk.folder_i <= Len(walk.folders)
    /\ walk' = [walk EXCEPT !.stack = <<Frame(walk.folders[walk.folder_i], <<>>)>>,
                            !.folder_i = @ + 1]
    /\ pc' = "folder"
    /\ UNCHANGED <<remote, resolving, sanitizing, saving, walkVars, namingVars, fetchVars, poolVars,
                   sharedVars>>

\* Lines 476-492, after the last album of the folder: the request for the
\* folder's subfolders.  Another status than 200 lists nothing, an exception
\* is caught at line 497.
SubfoldersFetch ==
    /\ pc = "albums"
    /\ album_i > Len(albums)
    /\ walk.stack # <<>>
    /\ \E status \in {"200", "error"} :
          walk' = [walk EXCEPT
                      !.stack[Len(walk.stack)].subfolders =
                          IF status = "200" THEN Folder.Folder ELSE <<>>,
                      !.stack[Len(walk.stack)].sub_i = 1,
                      !.unlisted = IF status = "200" THEN @ ELSE @ \cup {Folder.Name}]
    /\ pc' = "subfolders"
    /\ UNCHANGED <<remote, resolving, sanitizing, saving, walkVars, namingVars, fetchVars, poolVars,
                   sharedVars>>

\* A variant of SubfolderEnter that takes the subfolders from the last to the first.
SubfolderEnter_Reversed ==
    /\ pc = "subfolders"
    /\ Top.sub_i <= Len(Top.subfolders)
    /\ walk' = [walk EXCEPT
                   !.stack = Append([@ EXCEPT ![Len(@)].sub_i = @ + 1],
                                    Frame(Top.subfolders[Len(Top.subfolders) + 1 - Top.sub_i],
                                          FolderPath))]
    /\ pc' = "folder"
    /\ UNCHANGED <<remote, resolving, sanitizing, saving, walkVars, namingVars, fetchVars, poolVars,
                   sharedVars>>

\* Lines 495-496: `self.process_folder(subfolder, folder_path, indent_level + 1)`.
SubfolderEnter ==
    /\ pc = "subfolders"
    /\ Top.sub_i <= Len(Top.subfolders)
    /\ walk' = [walk EXCEPT
                   !.stack = Append([@ EXCEPT ![Len(@)].sub_i = @ + 1],
                                    Frame(Top.subfolders[Top.sub_i], FolderPath))]
    /\ pc' = "folder"
    /\ UNCHANGED <<remote, resolving, sanitizing, saving, walkVars, namingVars, fetchVars, poolVars,
                   sharedVars>>

\* A variant of FolderReturn in which the top-level call of process_folder
\* never returns to the loop of download_all.
FolderReturn_TopStays ==
    /\ pc = "subfolders"
    /\ Top.sub_i > Len(Top.subfolders)
    /\ walk' = IF Len(walk.stack) = 1 THEN walk
               ELSE [walk EXCEPT !.stack = SubSeq(@, 1, Len(@) - 1)]
    /\ pc' = "subfolders"
    /\ UNCHANGED <<remote, resolving, sanitizing, saving, walkVars, namingVars, fetchVars, poolVars,
                   sharedVars>>

\* The end of `for subfolder in subfolders`: process_folder returns to its
\* caller, the subfolder loop of the parent or the loop of download_all.
FolderReturn ==
    /\ pc = "subfolders"
    /\ Top.sub_i > Len(Top.subfolders)
    /\ walk' = [walk EXCEPT !.stack = SubSeq(@, 1, Len(@) - 1)]
    /\ pc' = IF Len(walk.stack) = 1 THEN "folders" ELSE "subfolders"
    /\ UNCHANGED <<remote, resolving, sanitizing, saving, walkVars, namingVars, fetchVars, poolVars,
                   sharedVars>>

\* The record block the loops of lines 555-559, 578-583, 601-605 and 628-634
\* write for an entry e of the log of `name`.
Block(name, e) ==
    CASE name = "failed_downloads.txt" ->
            [File |-> e.filename, Album |-> e.album, Reason |-> e.reason]
      [] name = "duplicates.txt" ->
            [File |-> e.filename, Album |-> e.album, ImageKey |-> e.unique_id,
             Reason |-> <<e.unique_id, e.original_file>>]
      [] name = "renamed_files.txt" ->
            [Album |-> e.album, Original |-> e.original, RenamedTo |-> e.renamed]
      [] name = "skipped_images.txt" ->
            [File |-> e.filename, Album |-> e.album, ImageKey |-> e.image_key,
             OriginalPath |-> e.original_path, SavedTo |-> e.skipped_path]

\* A variant of AuditWritten that writes the file of an empty log too.
AuditWritten_Always(files, name, log, total) ==
    Opened(files, Primary(<<>>, <<name>>), <<0, 1>>,
           [total |-> total, blocks |-> [i \in 1..Len(log) |-> Block(name, log[i])]])

\* Lines 546-563 and the like: `if log:` open(base_path / name, 'w'), the
\* header with its total, then one block per entry.  The writer is <<0, 1>>.
AuditWritten(files, name, log, total) ==
    IF log = <<>>
    THEN files
    ELSE Opened(files, Primary(<<>>, <<name>>), <<0, 1>>,
                [total |-> total, blocks |-> [i \in 1..Len(log) |-> Block(name, log[i])]])

\* Lines 529-641, after the last top-level folder: the summary and the four
\* audit files; download_all returns and the process ends with status 0.
WriteAuditLogs ==
    /\ pc = "folders"
    /\ walk.stack = <<>>
    /\ walk.folder_i > Len(walk.folders)
    /\ fs' = AuditWritten(
                AuditWritten(
                   AuditWritten(
                      AuditWritten(fs, "failed_downloads.txt", failed_downloads,
                                   Len(failed_downloads)),
                      "duplicates.txt", duplicate_log, total_duplicates),
                   "renamed_files.txt", renamed_files, total_renamed),
                "skipped_images.txt", skipped_log, total_skipped)
    /\ walk' = [walk EXCEPT !.exit_status = "0"]
    /\ pc' = "exit"
    /\ UNCHANGED <<remote, resolving, sanitizing, saving, walkVars, namingVars, fetchVars, poolVars,
                   total_downloaded, total_skipped, total_metadata_saved,
                   failed_downloads, skipped_log>>

(***************************************************************************)
(* download_image, lines 244-322, one action per access to what the tasks  *)
(* share (the files, the counters, the logs).  `self.x += 1` is a read     *)
(* followed by a write; list.append is one step.                           *)
(***************************************************************************)
\* The tasks a worker is running.
Running == {t \in 1..Len(task) : task[t].pc \notin {"queued", "done"}}

\* The writer id of task t of the album being processed.
Writer(t) == <<album_i, t>>

\* The task's record when download_image is over.
Finished(tk, result) ==
    [tk EXCEPT !.pc = "done", !.result = result, !.counter = 0, !.loaded = 0,
               !.ino = Before]

\* What the main thread and the pre-processing loop own: no task touches it.
taskFrame == <<remote, walk, resolving, sanitizing, saving, pc, walkVars, namingVars, fetchVars, futures, completed,
               errors_logged, entry>>

\* A variant of T_Start in which a task starts whatever the number of running tasks.
T_Start_Unbounded(t) ==
    /\ t \in 1..Len(task)
    /\ task[t].pc = "queued"
    /\ \A u \in 1..(t - 1) : task[u].pc # "queued"
    /\ task' = [task EXCEPT ![t].pc =
                   IF Exists(fs, task[t].download_path) THEN "quarantine" ELSE "resolve"]
    /\ UNCHANGED <<taskFrame, sharedVars>>

\* Lines 249-250: a worker takes the oldest queued task; `if download_path.exists()`.
T_Start(t) ==
    /\ t \in 1..Len(task)
    /\ task[t].pc = "queued"
    /\ \A u \in 1..(t - 1) : task[u].pc # "queued"
    /\ Cardinality(Running) < MaxWorkers
    /\ task' = [task EXCEPT ![t].pc =
                   IF Exists(fs, task[t].download_path) THEN "quarantine" ELSE "resolve"]
    /\ UNCHANGED <<taskFrame, sharedVars>>

\* A variant of T_Quarantine that does not test the path under Skipped_Images.
T_Quarantine_NoTest(t) ==
    /\ t \in 1..Len(task)
    /\ task[t].pc = "quarantine"
    /\ task' = [task EXCEPT
           ![t].download_path = Skipped(task[t].download_path.dir, task[t].filename),
           ![t].pc = "skip_load"]
    /\ UNCHANGED <<taskFrame, sharedVars>>

\* Lines 253-268: the path under Skipped_Images; `if download_path.exists()`.
T_Quarantine(t) ==
    /\ t \in 1..Len(task)
    /\ task[t].pc = "quarantine"
    /\ LET path == Skipped(task[t].download_path.dir, task[t].filename)
       IN  task' = [task EXCEPT
               ![t].download_path = path,
               ![t].counter = IF Exists(fs, path) THEN 2 ELSE 0,
               ![t].pc = IF Exists(fs, path) THEN "counter" ELSE "skip_load"]
    /\ UNCHANGED <<taskFrame, sharedVars>>

\* Lines 269-271: one test of the `while ... .exists()` loop.
T_Counter(t) ==
    /\ t \in 1..Len(task)
    /\ task[t].pc = "counter"
    /\ LET base_name == PathStem(task[t].filename)
           extension == PathSuffix(task[t].filename)
           path == Sibling(task[t].download_path,
                           Suffixed(base_name, task[t].counter, extension))
       IN  IF Exists(fs, path)
           THEN task' = [task EXCEPT ![t].counter = @ + 1]
           ELSE task' = [task EXCEPT ![t].download_path = path,
                                     ![t].counter = 0,
                                     ![t].pc = "skip_load"]
    /\ UNCHANGED <<taskFrame, sharedVars>>

\* Line 273, the read of `self.total_skipped += 1`.
T_SkipLoad(t) ==
    /\ t \in 1..Len(task)
    /\ task[t].pc = "skip_load"
    /\ task' = [task EXCEPT ![t].loaded = total_skipped, ![t].pc = "skip_store"]
    /\ UNCHANGED <<taskFrame, sharedVars>>

\* Line 273, the write of `self.total_skipped += 1`.
T_SkipStore(t) ==
    /\ t \in 1..Len(task)
    /\ task[t].pc = "skip_store"
    /\ total_skipped' = task[t].loaded + 1
    /\ task' = [task EXCEPT ![t].loaded = 0, ![t].pc = "skip_log"]
    /\ UNCHANGED <<taskFrame, fs, total_downloaded, total_metadata_saved,
                   failed_downloads, skipped_log>>

\* Line 274: self.skipped_log.append(...)
T_SkipLog(t) ==
    /\ t \in 1..Len(task)
    /\ task[t].pc = "skip_log"
    /\ skipped_log' = Append(skipped_log,
           [filename |-> task[t].filename,
            album |-> album_name,
            image_key |-> IF task[t].image.ImageKey # <<>>      \* .get('ImageKey', 'no-key')
                          THEN task[t].image.ImageKey ELSE <<"n", "o", "-", "k", "e", "y">>,
            original_path |-> task[t].original_download_path,
            skipped_path |-> task[t].download_path])
    /\ task' = [task EXCEPT ![t].pc = "resolve"]
    /\ UNCHANGED <<taskFrame, fs, total_downloaded, total_skipped,
                   total_metadata_saved, failed_downloads>>

(***************************************************************************)
(* The exceptions of a download and the reason strings of the failure log. *)
(* A reason string is a sequence of string fragments.                      *)
(***************************************************************************)
NoUrlReason == <<"No download URL found (no ImageSizeOriginal, ArchivedUri, LargestImage, or ImageDownload)">>

\* The error statuses the image host answers with.
ErrorStatuses == {404, 500}

HTTPError(status_code) == [type |-> "HTTPError", status_code |-> status_code]
Timeout == [type |-> "Timeout", status_code |-> 0]
ConnectionError == [type |-> "ConnectionError", status_code |-> 0]

\* What requests.get and raise_for_status raise (lines 288-289): an error status, or
\* no connection.  What iter_content raises once the file is open (lines 291-292):
\* the read timeout.
GetFailures == {HTTPError(c) : c \in ErrorStatuses} \cup {ConnectionError}
StreamFailures == {Timeout}

\* The reason of the three except clauses (lines 300, 308, 316).
Reason(e) ==
    IF e.type = "HTTPError" THEN <<"HTTP ">> \o DecStr(e.status_code) \o <<" error">>
    ELSE IF e.type = "Timeout" THEN <<"Download timeout (>30s)">>
    ELSE <<e.type, ": ", "connection broken">>

\* self.failed_downloads.append((filename, album_name, reason))
FailureLogged(log, tk, reason) ==
    Append(log, [filename |-> tk.filename, album |-> album_name, reason |-> reason])

\* A variant of T_Resolve that returns False for a missing URL without recording it.
T_Resolve_NoLog(t) ==
    /\ t \in 1..Len(task)
    /\ task[t].pc = "resolve"
    /\ \E image_url \in {"url", "none"} :
          IF image_url = "none"
          THEN task' = [task EXCEPT ![t] = Finished(task[t], "False")]
          ELSE task' = [task EXCEPT ![t].pc = "get"]
    /\ UNCHANGED <<taskFrame, sharedVars>>

\* Lines 277-284: get_image_download_url answers with a URL or with nothing.
T_Resolve(t) ==
    /\ t \in 1..Len(task)
    /\ task[t].pc = "resolve"
    /\ \E image_url \in {"url", "none"} :
          IF image_url = "none"
          THEN /\ failed_downloads' = FailureLogged(failed_downloads, task[t], NoUrlReason)
               /\ task' = [task EXCEPT ![t] = Finished(task[t], "False")]
          ELSE /\ task' = [task EXCEPT ![t].pc = "get"]
               /\ UNCHANGED failed_downloads
    /\ UNCHANGED <<taskFrame, fs, total_downloaded, total_skipped,
                   total_metadata_saved, skipped_log>>

\* Lines 288-289: requests.get(image_url, stream=True, timeout=30); raise_for_status().
T_Get(t) ==
    /\ t \in 1..Len(task)
    /\ task[t].pc = "get"
    /\ \/ task' = [task EXCEPT ![t].pc = "open"]
       \/ \E e \in GetFailures :
             task' = [task EXCEPT ![t].error = e, ![t].pc = "fail_log"]
    /\ UNCHANGED <<taskFrame, sharedVars>>

\* Line 290: open(download_path, 'wb')
T_Open(t) ==
    /\ t \in 1..Len(task)
    /\ task[t].pc = "open"
    /\ LET files == Opened(fs, task[t].download_path, Writer(t), "partial")
       IN  /\ fs' = files
           /\ task' = [task EXCEPT ![t].ino = files[task[t].download_path].ino,
                                   ![t].pc = "stream"]
    /\ UNCHANGED <<taskFrame, total_downloaded, total_skipped, total_metadata_saved,
                   failed_downloads, skipped_log>>

\* The files after task t, holding file `ino` open at `path`, has written `data`:
\* the write reaches the path only while the path still names that file.
Written(files, path, ino, w, data) ==
    IF Exists(files, path) /\ files[path].ino = ino
    THEN WithFile(files, path, [ino |-> ino, by |-> w, data |-> data])
    ELSE files

\* Lines 291-292: the chunks are written and the file closed, or the stream breaks.
T_Stream(t) ==
    /\ t \in 1..Len(task)
    /\ task[t].pc = "stream"
    /\ \/ /\ fs' = Written(fs, task[t].download_path, task[t].ino, Writer(t), "image")
          /\ task' = [task EXCEPT ![t].ino = Before, ![t].pc = "metadata"]
       \/ /\ \E e \in StreamFailures :
                task' = [task EXCEPT ![t].error = e, ![t].ino = Before,
                                     ![t].pc = "fail_log"]
          /\ UNCHANGED fs
    /\ UNCHANGED <<taskFrame, total_downloaded, total_skipped, total_metadata_saved,
                   failed_downloads, skipped_log>>

\* metadata_path = image_path.with_suffix('.txt')
MetadataPath(image_path) == Sibling(image_path, WithSuffixTxt(image_path.name))

\* save_image_metadata, lines 217-230: nothing to do when the sidecar exists or the
\* image has no metadata.
T_Metadata(t) ==
    /\ t \in 1..Len(task)
    /\ task[t].pc = "metadata"
    /\ task' = [task EXCEPT ![t].pc =
                   IF \/ Exists(fs, MetadataPath(task[t].download_path))
                      \/ Sidecar(task[t].image, <<"Title", "Caption", "Keywords">>) = <<>>
                   THEN "downloaded_load" ELSE "metadata_write"]
    /\ UNCHANGED <<taskFrame, sharedVars>>

\* save_image_metadata, lines 233-239: open(metadata_path, 'w') and the writes.
T_MetadataWrite(t) ==
    /\ t \in 1..Len(task)
    /\ task[t].pc = "metadata_write"
    /\ fs' = Opened(fs, MetadataPath(task[t].download_path), Writer(t),
                    Sidecar(task[t].image, <<"Title", "Caption", "Keywords">>))
    /\ task' = [task EXCEPT ![t].pc = "metadata_load"]
    /\ UNCHANGED <<taskFrame, total_downloaded, total_skipped, total_metadata_saved,
                   failed_downloads, skipped_log>>

\* Line 240, the read of `self.total_metadata_saved += 1`.
T_MetadataLoad(t) ==
    /\ t \in 1..Len(task)
    /\ task[t].pc = "metadata_load"
    /\ task' = [task EXCEPT ![t].loaded = total_metadata_saved,
                            ![t].pc = "metadata_store"]
    /\ UNCHANGED <<taskFrame, sharedVars>>

\* Line 240, the write of `self.total_metadata_saved += 1`.
T_MetadataStore(t) ==
    /\ t \in 1..Len(task)
    /\ task[t].pc = "metadata_store"
    /\ total_metadata_saved' = task[t].loaded + 1
    /\ task' = [task EXCEPT ![t].loaded = 0, ![t].pc = "downloaded_load"]
    /\ UNCHANGED <<taskFrame, fs, total_downloaded, total_skipped,
                   failed_downloads, skipped_log>>

\* Line 297, the read of `self.total_downloaded += 1`.
T_DownloadedLoad(t) ==
    /\ t \in 1..Len(task)
    /\ task[t].pc = "downloaded_load"
    /\ task' = [task EXCEPT ![t].loaded = total_downloaded,
                            ![t].pc = "downloaded_store"]
    /\ UNCHANGED <<taskFrame, sharedVars>>

\* Lines 297-298, the write of `self.total_downloaded += 1`; return True.
T_DownloadedStore(t) ==
    /\ t \in 1..Len(task)
    /\ task[t].pc = "downloaded_store"
    /\ total_downloaded' = task[t].loaded + 1
    /\ task' = [task EXCEPT ![t] = Finished(task[t], "True")]
    /\ UNCHANGED <<taskFrame, fs, total_skipped, total_metadata_saved,
                   failed_downloads, skipped_log>>

\* Lines 299-302, 307-310, 315-318: the except clauses record the failure.
T_FailLog(t) ==
    /\ t \in 1..Len(task)
    /\ task[t].pc = "fail_log"
    /\ failed_downloads' = FailureLogged(failed_downloads, task[t], Reason(task[t].error))
    /\ task' = [task EXCEPT ![t].pc = "fail_exists"]
    /\ UNCHANGED <<taskFrame, fs, total_downloaded, total_skipped,
                   total_metadata_saved, skipped_log>>

\* Lines 304, 312, 320: `if download_path.exists()`; return False when it does not.
T_FailExists(t) ==
    /\ t \in 1..Len(task)
    /\ task[t].pc = "fail_exists"
    /\ task' = IF Exists(fs, task[t].download_path)
               THEN [task EXCEPT ![t].pc = "unlink"]
               ELSE [task EXCEPT ![t] = Finished(task[t], "False")]
    /\ UNCHANGED <<taskFrame, sharedVars>>

\* Lines 305-306, 313-314, 321-322: download_path.unlink(); return False.  unlink
\* raises FileNotFoundError when the file has gone since the test.
T_Unlink(t) ==
    /\ t \in 1..Len(task)
    /\ task[t].pc = "unlink"
    /\ IF Exists(fs, task[t].download_path)
       THEN /\ fs' = Unlinked(fs, task[t].download_path)
            /\ task' = [task EXCEPT ![t] = Finished(task[t], "False")]
       ELSE /\ task' = [task EXCEPT ![t] = Finished(task[t], "raised")]
            /\ UNCHANGED fs
    /\ UNCHANGED <<taskFrame, total_downloaded, total_skipped, total_metadata_saved,
                   failed_downloads, skipped_log>>

(***************************************************************************)
(* save_image_metadata (lines 214-242) and save_album_metadata (lines      *)
(* 180-212) as one call each, made by one caller: `saving` holds the       *)
(* record and the path the call is given.                                  *)
(***************************************************************************)
\* A variant of SaveImageMetadata that does not look whether the sidecar exists.
SaveImageMetadata_Overwrite ==
    /\ pc = "save"
    /\ saving.target = "image"
    /\ saving.calls < MaxCalls
    /\ LET metadata_path == MetadataPath(saving.path)
           lines == Sidecar(saving.info, <<"Title", "Caption", "Keywords">>)
       IN  IF lines = <<>>
           THEN UNCHANGED <<fs, total_metadata_saved>>
           ELSE /\ fs' = Opened(fs, metadata_path, <<0, saving.calls + 1>>, lines)
                /\ total_metadata_saved' = total_metadata_saved + 1
    /\ saving' = [saving EXCEPT !.calls = @ + 1]
    /\ UNCHANGED <<remote, walk, resolving, sanitizing, pc, walkVars, namingVars, fetchVars,
                   poolVars, total_downloaded, total_skipped, failed_downloads, skipped_log>>

SaveImageMetadata ==
    /\ pc = "save"
    /\ saving.target = "image"
    /\ saving.calls < MaxCalls
    /\ LET metadata_path == MetadataPath(saving.path)
           lines == Sidecar(saving.info, <<"Title", "Caption", "Keywords">>)
       IN  IF Exists(fs, metadata_path) \/ lines = <<>>
           THEN UNCHANGED <<fs, total_metadata_saved>>
           ELSE /\ fs' = Opened(fs, metadata_path, <<0, saving.calls + 1>>, lines)
                /\ total_metadata_saved' = total_metadata_saved + 1
    /\ saving' = [saving EXCEPT !.calls = @ + 1]
    /\ UNCHANGED <<remote, walk, resolving, sanitizing, pc, walkVars, namingVars, fetchVars,
                   poolVars, total_downloaded, total_skipped, failed_downloads, skipped_log>>

SaveAlbumMetadata ==
    /\ pc = "save"
    /\ saving.target = "album"
    /\ saving.calls < MaxCalls
    /\ IF AlbumMetadataWritten(fs, saving.info, saving.path)
       THEN /\ fs' = Opened(fs, AlbumMetadataPath(saving.info, saving.path),
                            <<0, saving.calls + 1>>,
                            Sidecar(saving.info, <<"Name", "Description", "Keywords">>))
            /\ total_album_metadata_saved' = total_album_metadata_saved + 1
       ELSE UNCHANGED <<fs, total_album_metadata_saved>>
    /\ saving' = [saving EXCEPT !.calls = @ + 1]
    /\ UNCHANGED <<remote, walk, resolving, sanitizing, pc, albums, album_i, album_name,
                   album_path, total_folders, total_albums, total_images, namingVars,
                   fetchVars, poolVars, total_downloaded, total_skipped,
                   total_metadata_saved, failed_downloads, skipped_log>>

(***************************************************************************)
(* get_image_download_url, lines 119-178, one action per source.  A JSON   *)
(* value of the image record is absent, null, a string or an object with   *)
(* an optional Uri; the empty string stands for a missing or empty text.   *)
(***************************************************************************)
Absent == [type |-> "absent"]
Null == [type |-> "null"]
Str(s) == [type |-> "str", value |-> s]
Dict(uri) == [type |-> "dict", Uri |-> uri]

\* uris.get(key, {}) followed by `if isinstance(v, dict): v = v.get('Uri', '')`
\* (lines 124-126, 153-155): the text the sub-request is sent to, "" for none.
UriOf(v) ==
    IF v.type \in {"absent", "dict"} THEN (IF v.type = "dict" THEN v.Uri ELSE "")
    ELSE IF v.type = "str" THEN v.value
    ELSE ""

\* The size keys tried, in the order of the list of lines 137-139.
SizeKeys == <<"ImageSizeOriginal", "ImageSizeX5Large", "ImageSizeX4Large",
              "ImageSizeX3Large", "ImageSizeX2Large", "ImageSizeXLarge",
              "ImageSizeLarge">>

\* The Url the API lists for a size.
SizeUrl(size_key) == "size:" \o size_key

RECURSIVE FirstSizeUrl(_, _)
\* The loop of lines 137-143 from position i on: the Url of the first size key of
\* the list that `sizes` has a Url for, "" when the loop ends without one.
FirstSizeUrl(sizes, i) ==
    IF i > Len(SizeKeys) THEN ""
    ELSE IF SizeKeys[i] \in sizes THEN SizeUrl(SizeKeys[i])
    ELSE FirstSizeUrl(sizes, i + 1)

\* No call of get_image_download_url is modelled.
NoResolution == [pc |-> "idle"]

\* No call of sanitize_filename is modelled.
NoSanitizing == [input |-> <<>>, results |-> <<>>]

\* A variant of AfterSourceFailure that gives up with None.
AfterSourceFailure_GaveUp(next) == "returned"

\* Where the function goes when a sub-request answers a status other than 200 or
\* raises (`except Exception: pass`, lines 144-145, 168-169): on to the next source.
AfterSourceFailure(next) == next

\* The call has returned image_url.
Resolved(image_url) == [resolving EXCEPT !.pc = "returned", !.image_url = image_url]

\* Source 1, lines 124-145: the ImageSizeDetails sub-resource.
R_SizeDetails ==
    /\ resolving.pc = "size_details"
    /\ LET size_details_uri == UriOf(resolving.image_info.Uris.ImageSizeDetails)
           resp == resolving.api.ImageSizeDetails
       IN  IF size_details_uri = ""
           THEN resolving' = [resolving EXCEPT !.pc = "archived"]
           ELSE LET asked == Append(resolving.asked, "ImageSizeDetails")
                IN  IF resp.status_code = 200 /\ FirstSizeUrl(resp.sizes, 1) # ""
                    THEN resolving' = [Resolved(FirstSizeUrl(resp.sizes, 1))
                                          EXCEPT !.asked = asked]
                    ELSE resolving' =
                           [resolving EXCEPT
                              !.asked = asked,
                              !.pc = IF resp.status_code = 200 THEN "archived"
                                     ELSE AfterSourceFailure("archived")]
    /\ UNCHANGED <<remote, walk, sanitizing, saving, pc, namingVars, fetchVars, walkVars, poolVars,
                   sharedVars>>

\* Source 2, lines 148-150: the record's ArchivedUri.
R_Archived ==
    /\ resolving.pc = "archived"
    /\ LET archived_uri == resolving.image_info.ArchivedUri
       IN  resolving' = IF archived_uri # "" THEN Resolved(archived_uri)
                        ELSE [resolving EXCEPT !.pc = "largest"]
    /\ UNCHANGED <<remote, walk, sanitizing, saving, pc, namingVars, fetchVars, walkVars, poolVars,
                   sharedVars>>

\* Source 3, lines 153-169: the LargestImage sub-resource.
R_Largest ==
    /\ resolving.pc = "largest"
    /\ LET largest_image_uri == UriOf(resolving.image_info.Uris.LargestImage)
           resp == resolving.api.LargestImage
       IN  IF largest_image_uri = ""
           THEN resolving' = [resolving EXCEPT !.pc = "image_download"]
           ELSE LET asked == Append(resolving.asked, "LargestImage")
                IN  IF resp.status_code = 200 /\ resp.Url # ""
                    THEN resolving' = [Resolved(resp.Url) EXCEPT !.asked = asked]
                    ELSE resolving' =
                           [resolving EXCEPT
                              !.asked = asked,
                              !.pc = IF resp.status_code = 200 THEN "image_download"
                                     ELSE AfterSourceFailure("image_download")]
    /\ UNCHANGED <<remote, walk, sanitizing, saving, pc, namingVars, fetchVars, walkVars, poolVars,
                   sharedVars>>

\* Source 4, lines 172-178: Uris.ImageDownload; None is modelled as "".
R_ImageDownload ==
    /\ resolving.pc = "image_download"
    /\ LET image_download == resolving.image_info.Uris.ImageDownload
       IN  resolving' = Resolved(UriOf(image_download))
    /\ UNCHANGED <<remote, walk, sanitizing, saving, pc, namingVars, fetchVars, walkVars, poolVars,
                   sharedVars>>

(***************************************************************************)
(* SpecResolve: one call of get_image_download_url, over image records     *)
(* with every shape of the four sources and over the answers of the two    *)
(* sub-requests (status_code 0 stands for a request that raises).          *)
(***************************************************************************)
SizeSets == {{}, {"ImageSizeOriginal"}, {"ImageSizeOriginal", "ImageSizeX5Large"},
             {"ImageSizeX3Large", "ImageSizeLarge"}, {"ImageSizeLarge"},
             {"ImageSizeMedium"}}

SizeResponses ==
    {[status_code |-> 200, sizes |-> s] : s \in SizeSets}
      \cup {[status_code |-> c, sizes |-> {}] : c \in {0, 500}}

LargestResponses ==
    {[status_code |-> 200, Url |-> u] : u \in {"largest", ""}}
      \cup {[status_code |-> c, Url |-> ""] : c \in {0, 404}}

ResolveInputs ==
    [Uris : [ImageSizeDetails : {Absent, Null, Dict(""), Dict("/sizes"), Str("/sizes")},
             LargestImage : {Absent, Dict("/largest"), Str("/largest")},
             ImageDownload : {Absent, Null, Dict(""), Dict("download"), Str("download")}],
     ArchivedUri : {"", "archived"}]

InitResolve ==
    /\ \E image_info \in ResolveInputs, size \in SizeResponses, largest \in LargestResponses :
          resolving = [pc |-> "size_details",
                       image_info |-> image_info,
                       api |-> [ImageSizeDetails |-> size, LargestImage |-> largest],
                       asked |-> <<>>,
                       image_url |-> ""]
    /\ sanitizing = NoSanitizing
    /\ remote = [Name |-> <<"F">>, Album |-> <<>>]
    /\ walk = NoWalk
    /\ saving = <<>>
    /\ pc = "done"
    /\ albums = <<>>
    /\ album_i = 1
    /\ album_name = <<>>
    /\ album_path = <<>>
    /\ url = 0
    /\ first_request = FALSE
    /\ requested = <<>>
    /\ fetch_error = "none"
    /\ images = <<>>
    /\ idx = 0
    /\ seen_image_keys = <<>>
    /\ used_filenames = <<>>
    /\ processed_images = <<>>
    /\ futures = 0
    /\ completed = {}
    /\ errors_logged = 0
    /\ task = <<>>
    /\ entry = NoEntry
    /\ fs = <<>>
    /\ total_downloaded = 0
    /\ total_skipped = 0
    /\ total_images = 0
    /\ total_albums = 0
    /\ total_folders = 0
    /\ total_metadata_saved = 0
    /\ total_album_metadata_saved = 0
    /\ total_duplicates = 0
    /\ total_renamed = 0
    /\ failed_downloads = <<>>
    /\ duplicate_log = <<>>
    /\ renamed_files = <<>>
    /\ skipped_log = <<>>

NextResolve == R_SizeDetails \/ R_Archived \/ R_Largest \/ R_ImageDownload

SpecResolve == InitResolve /\ [][NextResolve]_vars

(***************************************************************************)
(* SpecSanitize: sanitize_filename applied to a name, and again to its own *)
(* result, over names shorter and longer than the truncation length.       *)
(***************************************************************************)
\* The characters the names are made of: a letter, the two characters strip removes
\* and two of the invalid characters.
NameChars == {"a", " ", ".", "<", "?"}

\* k letters.
Letters(k) == [i \in 1..k |-> "a"]

\* A first character or none, a run of letters that ends at or short of the
\* truncation length, and up to MaxTail further characters.
SanitizeInputs ==
    {head \o Letters(k) \o tail :
        head \in SeqsUpTo(NameChars, 1),
        k \in {0, MaxNameLen - 2, MaxNameLen - 1, MaxNameLen},
        tail \in SeqsUpTo(NameChars, MaxTail)}

\* The name the next call is given: the input, then the result of the last call.
SanitizeArgument ==
    IF sanitizing.results = <<>> THEN sanitizing.input
    ELSE sanitizing.results[Len(sanitizing.results)]

\* One call of sanitize_filename.
Sanitize ==
    /\ Len(sanitizing.results) < MaxCalls
    /\ sanitizing' = [sanitizing EXCEPT
                         !.results = Append(@, sanitize_filename(SanitizeArgument))]
    /\ UNCHANGED <<remote, walk, resolving, saving, pc, namingVars, fetchVars, walkVars, poolVars,
                   sharedVars>>

InitSanitize ==
    /\ \E name \in SanitizeInputs : sanitizing = [input |-> name, results |-> <<>>]
    /\ resolving = NoResolution
    /\ remote = [Name |-> <<"F">>, Album |-> <<>>]
    /\ walk = NoWalk
    /\ saving = <<>>
    /\ pc = "done"
    /\ albums = <<>>
    /\ album_i = 1
    /\ album_name = <<>>
    /\ album_path = <<>>
    /\ url = 0
    /\ first_request = FALSE
    /\ requested = <<>>
    /\ fetch_error = "none"
    /\ images = <<>>
    /\ idx = 0
    /\ seen_image_keys = <<>>
    /\ used_filenames = <<>>
    /\ processed_images = <<>>
    /\ futures = 0
    /\ completed = {}
    /\ errors_logged = 0
    /\ task = <<>>
    /\ entry = NoEntry
    /\ fs = <<>>
    /\ total_downloaded = 0
    /\ total_skipped = 0
    /\ total_images = 0
    /\ total_albums = 0
    /\ total_folders = 0
    /\ total_metadata_saved = 0
    /\ total_album_metadata_saved = 0
    /\ total_duplicates = 0
    /\ total_renamed = 0
    /\ failed_downloads = <<>>
    /\ duplicate_log = <<>>
    /\ renamed_files = <<>>
    /\ skipped_log = <<>>

NextSanitize == Sanitize

SpecSanitize == InitSanitize /\ [][NextSanitize]_vars

(***************************************************************************)
(* SpecPlan: the pre-processing loop of one album over every image         *)
(* sequence of ImageRecords of length 1..MaxImages.                        *)
(***************************************************************************)
PlanAlbumName == <<"A">>

InitPlan ==
    /\ remote = [Name |-> <<"F">>, Album |-> <<>>]
    /\ walk = NoWalk
    /\ saving = <<>>
    /\ resolving = NoResolution
    /\ sanitizing = NoSanitizing
    /\ pc = "pre"
    /\ albums = <<>>
    /\ album_i = 1
    /\ album_name = PlanAlbumName
    /\ album_path = <<sanitize_filename(PlanAlbumName)>>
    /\ url = 0
    /\ first_request = FALSE
    /\ requested = <<>>
    /\ fetch_error = "none"
    /\ images \in {s \in SeqsUpTo(ImageRecords, MaxImages) : Len(s) > 0}
    /\ idx = 0
    /\ seen_image_keys = <<>>
    /\ used_filenames = <<>>
    /\ processed_images = <<>>
    /\ futures = 0
    /\ completed = {}
    /\ errors_logged = 0
    /\ task = <<>>
    /\ entry = NoEntry
    /\ fs = <<>>
    /\ total_downloaded = 0
    /\ total_skipped = 0
    /\ total_images = Len(images)
    /\ total_albums = 1
    /\ total_folders = 0
    /\ total_metadata_saved = 0
    /\ total_album_metadata_saved = 0
    /\ total_duplicates = 0
    /\ total_renamed = 0
    /\ failed_downloads = <<>>
    /\ duplicate_log = <<>>
    /\ renamed_files = <<>>
    /\ skipped_log = <<>>

NextPlan == PreprocessStep

SpecPlan == InitPlan /\ [][NextPlan]_vars

(***************************************************************************)
(* Spec: one folder of the remote account walked by process_folder, album  *)
(* by album, against a download root that is empty or holds the files of   *)
(* an earlier run.                                                         *)
(***************************************************************************)
IA == [ImageKey |-> <<"k">>, Uri |-> <<>>, FileName |-> Name(A_JPG), Title |-> <<"t">>]
IB == [ImageKey |-> <<"m">>, Uri |-> <<>>, FileName |-> Name(A2_JPG), Title |-> <<>>]
IC == [ImageKey |-> <<"n">>, Uri |-> <<>>, FileName |-> Name(A_JPG), Title |-> <<>>]

\* The pages of an album whose listing is served page by page, in order.
RECURSIVE Chain(_, _)
Chain(lists, first) ==
    IF lists = <<>> THEN <<>>
    ELSE <<[AlbumImage |-> Head(lists),
            NextPage |-> IF Len(lists) = 1 THEN 0 ELSE first + 1]>>
           \o Chain(Tail(lists), first + 1)

Album(name, uri, lists) ==
    [Name |-> name, Uri |-> uri, Description |-> <<>>, Keywords |-> <<>>,
     pages |-> Chain(lists, 1)]

AlbumA(lists) == Album(<<"A">>, <<"/", "a">>, lists)
AlbumB(lists) == Album(<<"B">>, <<"/", "b">>, lists)

RECURSIVE Served(_)
\* The number of image records an album's pages serve.
Served(pages) == IF pages = <<>> THEN 0 ELSE Len(Head(pages).AlbumImage) + Served(Tail(pages))

RECURSIVE ServedBy(_)
\* The number of image records a listing's albums with a Uri serve.
ServedBy(listing) ==
    IF listing = <<>> THEN 0
    ELSE (IF Head(listing).Uri = <<>> THEN 0 ELSE Served(Head(listing).pages))
           + ServedBy(Tail(listing))

\* The directory of album A of folder F.
DirA == <<<<"F">>, <<"A">>>>

A_TXT == <<"a", ".", "t", "x", "t">>

\* The files of `names` in the primary tree and of `quarantined` under Skipped_Images.
Tree(names, quarantined) ==
    LET paths == {Primary(DirA, n) : n \in names} \cup {Skipped(DirA, n) : n \in quarantined}
    IN  [p \in paths |-> OldFile]

Fresh == Tree({}, {})
Resumed == Tree({A_JPG, A2_JPG}, {})

\* The download roots a run may start against: empty; holding a sidecar only;
\* holding the images of an earlier run; holding them and quarantined copies.
InitialTrees ==
    { Fresh,
      Tree({A_TXT}, {}),
      Resumed,
      Tree({A_JPG, A2_JPG}, {A_JPG}),
      Tree({A_JPG, A2_JPG}, {A_JPG, A2_JPG}) }

\* The runs of the model: what the folder serves and the download root the run
\* starts against.  One album of two plan entries against every root; one album of
\* three plan entries and folders of two albums against fewer roots.
RunPool ==
    [listing : { <<AlbumA(<<<<IA, IB>>>>)>>,
                 <<AlbumA(<<<<IA, IA>>>>)>> },
     tree : InitialTrees]
      \cup
    [listing : { <<AlbumA(<<<<IA, IB, IC>>>>)>> },
     tree : {Fresh}]
      \cup
    [listing : { <<AlbumA(<<<<IA>>>>), AlbumB(<<<<IB>>>>)>>,
                 <<Album(<<"A">>, <<>>, <<<<IA>>>>), AlbumB(<<<<IB>>>>)>>,
                 <<AlbumA(<<<<IA>>, <<IC>>>>), AlbumB(<<<<IA>>>>)>>,
                 <<AlbumA(<<<<IA, IB>>>>), AlbumB(<<<<IA>>, <<IC>>>>)>> },
     tree : {Fresh, Resumed}]
      \cup
    [listing : { <<AlbumA(<<<<IA, IB>>>>), AlbumB(<<<<IA>>>>)>> },
     tree : {Tree({A_JPG, A2_JPG}, {A_JPG})}]
      \cup
    \* Two albums of one folder whose names sanitize to the same directory
    \* name; an album with an image named as the sidecar of another image.
    [listing : { <<AlbumA(<<<<IA>>>>), Album(<<"A", ".">>, <<"/", "b">>, <<<<IA>>>>)>>,
                 <<AlbumA(<<<<IA, [IB EXCEPT !.FileName = Name(A_TXT)]>>>>)>> },
     tree : {Fresh}]

Runs == {r \in RunPool : ServedBy(r.listing) <= MaxRunImages}

Init ==
    /\ \E run \in Runs :
          /\ remote = [Name |-> <<"F">>, Album |-> run.listing]
          /\ walk = NoWalk
          /\ saving = <<>>
          /\ resolving = NoResolution
          /\ sanitizing = NoSanitizing
          /\ fs = run.tree
    /\ pc = "folder"
    /\ albums = <<>>
    /\ album_i = 1
    /\ album_name = <<>>
    /\ album_path = <<>>
    /\ url = 0
    /\ first_request = FALSE
    /\ requested = <<>>
    /\ fetch_error = "none"
    /\ images = <<>>
    /\ idx = 0
    /\ seen_image_keys = <<>>
    /\ used_filenames = <<>>
    /\ processed_images = <<>>
    /\ futures = 0
    /\ completed = {}
    /\ errors_logged = 0
    /\ task = <<>>
    /\ entry = NoEntry
    /\ total_downloaded = 0
    /\ total_skipped = 0
    /\ total_images = 0
    /\ total_albums = 0
    /\ total_folders = 0
    /\ total_metadata_saved = 0
    /\ total_album_metadata_saved = 0
    /\ total_duplicates = 0
    /\ total_renamed = 0
    /\ failed_downloads = <<>>
    /\ duplicate_log = <<>>
    /\ renamed_files = <<>>
    /\ skipped_log = <<>>

\* The futures an album can have: no plan is longer than the images served.
TaskIds == 1..MaxRunImages

Next ==
    \/ FolderStart
    \/ AlbumStart
    \/ FetchPage
    \/ AlbumFetched
    \/ PreprocessStep
    \/ PreprocessDone
    \/ Submit
    \/ \E t \in TaskIds : T_Start(t)
    \/ \E t \in TaskIds : T_Quarantine(t)
    \/ \E t \in TaskIds : T_Counter(t)
    \/ \E t \in TaskIds : T_SkipLoad(t)
    \/ \E t \in TaskIds : T_SkipStore(t)
    \/ \E t \in TaskIds : T_SkipLog(t)
    \/ \E t \in TaskIds : T_Resolve(t)
    \/ \E t \in TaskIds : T_Get(t)
    \/ \E t \in TaskIds : T_Open(t)
    \/ \E t \in TaskIds : T_Stream(t)
    \/ \E t \in TaskIds : T_Metadata(t)
    \/ \E t \in TaskIds : T_MetadataWrite(t)
    \/ \E t \in TaskIds : T_MetadataLoad(t)
    \/ \E t \in TaskIds : T_MetadataStore(t)
    \/ \E t \in TaskIds : T_DownloadedLoad(t)
    \/ \E t \in TaskIds : T_DownloadedStore(t)
    \/ \E t \in TaskIds : T_FailLog(t)
    \/ \E t \in TaskIds : T_FailExists(t)
    \/ \E t \in TaskIds : T_Unlink(t)
    \/ \E t \in TaskIds : Collect(t)
    \/ AlbumReturn
    \/ NextAlbum
    \/ FolderDone

Spec == Init /\ [][Next]_vars

(***************************************************************************)
(* SpecFetch: fetch_images on one album, over every chain of 1..MaxPages   *)
(* pages, stored in the order the NextPage cursors visit them or not, each *)
(* request answering 200, another status, or raising.                      *)
(***************************************************************************)
PageContents == {<<>>, <<IA>>, <<IB>>, <<IA, IC>>}

\* The pages of an album stored against the order their cursors visit them: the
\* first page first, the later pages last to second.
BackChain(lists) ==
    LET n == Len(lists)
    IN  [j \in 1..n |->
            IF j = 1
            THEN [AlbumImage |-> lists[1], NextPage |-> IF n > 1 THEN n ELSE 0]
            ELSE [AlbumImage |-> lists[n + 2 - j], NextPage |-> IF j > 2 THEN j - 1 ELSE 0]]

FetchAlbums ==
    LET chains == {l \in SeqsUpTo(PageContents, MaxPages) : Len(l) > 0}
    IN  {AlbumA(l) : l \in chains}
          \cup {[AlbumA(l) EXCEPT !.pages = BackChain(l)] : l \in chains}

InitFetch ==
    /\ remote = [Name |-> <<"F">>, Album |-> <<>>]
    /\ walk = NoWalk
    /\ saving = <<>>
    /\ resolving = NoResolution
    /\ sanitizing = NoSanitizing
    /\ \E album \in FetchAlbums : albums = <<album>>
    /\ album_i = 1
    /\ album_name = albums[1].Name
    /\ album_path = <<sanitize_filename(<<"F">>), sanitize_filename(albums[1].Name)>>
    /\ pc = "fetch"
    /\ url = 1
    /\ first_request = TRUE
    /\ requested = <<>>
    /\ fetch_error = "none"
    /\ images = <<>>
    /\ idx = 0
    /\ seen_image_keys = <<>>
    /\ used_filenames = <<>>
    /\ processed_images = <<>>
    /\ futures = 0
    /\ completed = {}
    /\ errors_logged = 0
    /\ task = <<>>
    /\ entry = NoEntry
    /\ fs = <<>>
    /\ total_downloaded = 0
    /\ total_skipped = 0
    /\ total_images = 0
    /\ total_albums = 0
    /\ total_folders = 1
    /\ total_metadata_saved = 0
    /\ total_album_metadata_saved = 0
    /\ total_duplicates = 0
    /\ total_renamed = 0
    /\ failed_downloads = <<>>
    /\ duplicate_log = <<>>
    /\ renamed_files = <<>>
    /\ skipped_log = <<>>

NextFetch == FetchPage

SpecFetch == InitFetch /\ [][NextFetch]_vars

(***************************************************************************)
(* SpecPool: the executor of process_album for an album of MaxPoolImages   *)
(* plan entries on an empty download root, while the main thread submits   *)
(* and then waits in as_completed, and the tasks up to the request for the *)
(* image: a task that has a URL stays in that request, one without a URL   *)
(* returns and frees its worker.                                           *)
(***************************************************************************)
\* Records of distinct ImageKeys without a FileName.
PoolImages ==
    [i \in 1..MaxPoolImages |->
        [ImageKey |-> <<"p">> \o DecStr(i), Uri |-> <<>>, FileName |-> NoName,
         Title |-> <<>>]]

InitPool ==
    /\ remote = [Name |-> <<"F">>, Album |-> <<>>]
    /\ walk = NoWalk
    /\ saving = <<>>
    /\ resolving = NoResolution
    /\ sanitizing = NoSanitizing
    /\ pc = "pre"
    /\ albums = <<>>
    /\ album_i = 1
    /\ album_name = PlanAlbumName
    /\ album_path = <<sanitize_filename(PlanAlbumName)>>
    /\ url = 0
    /\ first_request = FALSE
    /\ requested = <<>>
    /\ fetch_error = "none"
    /\ images = PoolImages
    /\ idx = 0
    /\ seen_image_keys = <<>>
    /\ used_filenames = <<>>
    /\ processed_images = <<>>
    /\ futures = 0
    /\ completed = {}
    /\ errors_logged = 0
    /\ task = <<>>
    /\ entry = NoEntry
    /\ fs = <<>>
    /\ total_downloaded = 0
    /\ total_skipped = 0
    /\ total_images = Len(images)
    /\ total_albums = 1
    /\ total_folders = 0
    /\ total_metadata_saved = 0
    /\ total_album_metadata_saved = 0
    /\ total_duplicates = 0
    /\ total_renamed = 0
    /\ failed_downloads = <<>>
    /\ duplicate_log = <<>>
    /\ renamed_files = <<>>
    /\ skipped_log = <<>>

PoolTaskIds == 1..MaxPoolImages

NextPool ==
    \/ PreprocessStep
    \/ PreprocessDone
    \/ Submit
    \/ \E t \in PoolTaskIds : T_Start(t)
    \/ \E t \in PoolTaskIds : T_Resolve(t)

SpecPool == InitPool /\ [][NextPool]_vars

(***************************************************************************)
(* Properties of the pre-processing loop (SpecPlan).                       *)
(***************************************************************************)
(* SpecWalk: download_all over a tree of folders.  The albums hold no      *)
(* images, so that the walk is the only thing that happens: every album is *)
(* listed by fetch_images and left at line 343.                            *)
(***************************************************************************)
\* The top-level folders the walk is run against.  A folder is served with
\* its name, its albums and its subfolders; an album either has a Uri and a
\* listing of one page without images, or no Uri (lines 329-331).
FolderTrees ==
    LET Node(name, listing, subfolders) ==
            [Name |-> name, Album |-> listing, Folder |-> subfolders]
        Empty(name) == Album(name, <<"/">> \o name, << <<>> >>)
        NoUri(name) == Album(name, <<>>, << <<>> >>)
    IN  { << Node(<<"F">>, <<Empty(<<"A">>), Empty(<<"B">>)>>,
                  << Node(<<"G">>, <<Empty(<<"C">>)>>, << Node(<<"J">>, <<>>, <<>>) >>),
                     Node(<<"H">>, <<NoUri(<<"D">>), Empty(<<"E">>)>>, <<>>) >>),
             Node(<<"K">>, <<Empty(<<"L">>)>>, <<>>) >>,
          << Node(<<"F">>, <<>>, << Node(<<"G">>, <<Empty(<<"A">>)>>, <<>>) >>),
             Node(<<"K">>, <<>>, << Node(<<"H">>, <<>>, <<>>) >>) >>,
          << >> }

InitWalk ==
    /\ remote \in {[Name |-> <<>>, Album |-> <<>>, Folder |-> tree] : tree \in FolderTrees}
    /\ walk = [NoWalk EXCEPT !.exit_status = "running"]
    /\ saving = <<>>
    /\ resolving = NoResolution
    /\ sanitizing = NoSanitizing
    /\ fs = Fresh
    /\ pc = "root"
    /\ albums = <<>>
    /\ album_i = 1
    /\ album_name = <<>>
    /\ album_path = <<>>
    /\ url = 0
    /\ first_request = FALSE
    /\ requested = <<>>
    /\ fetch_error = "none"
    /\ images = <<>>
    /\ idx = 0
    /\ seen_image_keys = <<>>
    /\ used_filenames = <<>>
    /\ processed_images = <<>>
    /\ futures = 0
    /\ completed = {}
    /\ errors_logged = 0
    /\ task = <<>>
    /\ entry = NoEntry
    /\ total_downloaded = 0
    /\ total_skipped = 0
    /\ total_images = 0
    /\ total_albums = 0
    /\ total_folders = 0
    /\ total_metadata_saved = 0
    /\ total_album_metadata_saved = 0
    /\ total_duplicates = 0
    /\ total_renamed = 0
    /\ failed_downloads = <<>>
    /\ duplicate_log = <<>>
    /\ renamed_files = <<>>
    /\ skipped_log = <<>>

NextWalk ==
    \/ RootFetch
    \/ TopFolder
    \/ FolderStart
    \/ AlbumStart
    \/ FetchPage
    \/ AlbumFetched
    \/ NextAlbum
    \/ SubfoldersFetch
    \/ SubfolderEnter
    \/ FolderReturn
    \/ WriteAuditLogs

SpecWalk == InitWalk /\ [][NextWalk]_vars

(***************************************************************************)
(* SpecAudit: the end of download_all, lines 529-641, from the states a    *)
(* walk can end in: each of the four logs holds up to MaxLog events, and   *)
(* the download root may hold the audit files of an earlier run.           *)
(***************************************************************************)
InitAudit ==
    LET failures == {[filename |-> A_JPG, album |-> <<"A">>, reason |-> NoUrlReason],
                     [filename |-> A2_JPG, album |-> <<"B">>, reason |-> Reason(Timeout)]}
        duplicates == {[unique_id |-> <<"k">>, filename |-> A_JPG, album |-> <<"A">>,
                        original_file |-> A_JPG]}
        renames == {[original |-> A_JPG, renamed |-> A2_JPG, album |-> <<"A">>]}
        skips == {[filename |-> n, album |-> <<"A">>, image_key |-> <<"k">>,
                   original_path |-> Primary(DirA, n), skipped_path |-> Skipped(DirA, n)] :
                     n \in {A_JPG, A2_JPG}}
        stale == {Primary(<<>>, <<"failed_downloads.txt">>),
                  Primary(<<>>, <<"skipped_images.txt">>)}
    IN  /\ failed_downloads \in SeqsUpTo(failures, MaxLog)
        /\ duplicate_log \in SeqsUpTo(duplicates, MaxLog)
        /\ renamed_files \in SeqsUpTo(renames, MaxLog)
        /\ skipped_log \in SeqsUpTo(skips, MaxLog)
        /\ fs \in {Fresh, [q \in stale |-> OldFile]}
    /\ total_duplicates = Len(duplicate_log)
    /\ total_renamed = Len(renamed_files)
    /\ total_skipped = Len(skipped_log)
    /\ remote = [Name |-> <<>>, Album |-> <<>>, Folder |-> <<>>]
    /\ walk = [NoWalk EXCEPT !.folder_i = 1]
    /\ saving = <<>>
    /\ resolving = NoResolution
    /\ sanitizing = NoSanitizing
    /\ pc = "folders"
    /\ albums = <<>>
    /\ album_i = 1
    /\ album_name = <<>>
    /\ album_path = <<>>
    /\ url = 0
    /\ first_request = FALSE
    /\ requested = <<>>
    /\ fetch_error = "none"
    /\ images = <<>>
    /\ idx = 0
    /\ seen_image_keys = <<>>
    /\ used_filenames = <<>>
    /\ processed_images = <<>>
    /\ futures = 0
    /\ completed = {}
    /\ errors_logged = 0
    /\ task = <<>>
    /\ entry = NoEntry
    /\ total_downloaded = 0
    /\ total_images = 0
    /\ total_albums = 0
    /\ total_folders = 0
    /\ total_metadata_saved = 0
    /\ total_album_metadata_saved = 0

NextAudit == WriteAuditLogs

SpecAudit == InitAudit /\ [][NextAudit]_vars

(***************************************************************************)
(* SpecMetadata: up to MaxCalls calls of one of the two metadata helpers   *)
(* with the same arguments, for every combination of present and absent    *)
(* fields, against a directory that is empty, holds the sidecar already,   *)
(* or holds another file.                                                  *)
(***************************************************************************)
InitMetadata ==
    LET values(keys) ==
            {[k \in keys |-> IF k \in S THEN <<k>> ELSE <<>>] : S \in SUBSET keys}
        images_given == {info @@ [FileName |-> A_JPG] :
                            info \in values({"Title", "Caption", "Keywords"})}
        albums_given == {info @@ [Uri |-> <<"/", "a">>] :
                            info \in values({"Name", "Description", "Keywords"})}
    IN  /\ saving \in
              [target : {"image"}, info : images_given,
               path : {Primary(DirA, A_JPG), Primary(DirA, <<"a">>)}, calls : {0}]
                \cup
              [target : {"album"}, info : albums_given, path : {DirA}, calls : {0}]
        /\ fs \in {Fresh,
                   [q \in {Primary(DirA, A_TXT)} |-> OldFile],
                   [q \in {Primary(DirA, <<"N", "a", "m", "e", ".", "t", "x", "t">>)} |-> OldFile],
                   [q \in {Primary(DirA, A_JPG)} |-> OldFile]}
    /\ remote = [Name |-> <<"F">>, Album |-> <<>>]
    /\ walk = NoWalk
    /\ resolving = NoResolution
    /\ sanitizing = NoSanitizing
    /\ pc = "save"
    /\ albums = <<>>
    /\ album_i = 1
    /\ album_name = <<>>
    /\ album_path = <<>>
    /\ url = 0
    /\ first_request = FALSE
    /\ requested = <<>>
    /\ fetch_error = "none"
    /\ images = <<>>
    /\ idx = 0
    /\ seen_image_keys = <<>>
    /\ used_filenames = <<>>
    /\ processed_images = <<>>
    /\ futures = 0
    /\ completed = {}
    /\ errors_logged = 0
    /\ task = <<>>
    /\ entry = NoEntry
    /\ total_downloaded = 0
    /\ total_skipped = 0
    /\ total_images = 0
    /\ total_albums = 0
    /\ total_folders = 0
    /\ total_metadata_saved = 0
    /\ total_album_metadata_saved = 0
    /\ total_duplicates = 0
    /\ total_renamed = 0
    /\ failed_downloads = <<>>
    /\ duplicate_log = <<>>
    /\ renamed_files = <<>>
    /\ skipped_log = <<>>

NextMetadata == SaveImageMetadata \/ SaveAlbumMetadata

SpecMetadata == InitMetadata /\ [][NextMetadata]_vars

(***************************************************************************)
(* SpecRun: download_all from its first request to its end, over a folder  *)
(* with an album of two pages and a subfolder with an album of one page,   *)
(* on a fresh root and on a root that holds a.j and its quarantined copy   *)
(* from an earlier run.  Every request answers or fails, and some thread   *)
(* that can take a step takes one: the main thread is blocked only in      *)
(* as_completed, the workers only while the pool has nothing for them.     *)
(***************************************************************************)
InitRun ==
    /\ remote = [Name |-> <<>>, Album |-> <<>>,
                 Folder |-> << [Name |-> <<"F">>,
                                Album |-> <<AlbumA(<<<<IA>>, <<IB>>>>)>>,
                                Folder |-> << [Name |-> <<"G">>,
                                               Album |-> <<AlbumB(<<<<IC>>>>)>>,
                                               Folder |-> <<>>] >>] >>]
    /\ walk = [NoWalk EXCEPT !.exit_status = "running"]
    /\ saving = <<>>
    /\ resolving = NoResolution
    /\ sanitizing = NoSanitizing
    /\ fs \in {Fresh, Tree({A_JPG}, {A_JPG})}
    /\ pc = "root"
    /\ albums = <<>>
    /\ album_i = 1
    /\ album_name = <<>>
    /\ album_path = <<>>
    /\ url = 0
    /\ first_request = FALSE
    /\ requested = <<>>
    /\ fetch_error = "none"
    /\ images = <<>>
    /\ idx = 0
    /\ seen_image_keys = <<>>
    /\ used_filenames = <<>>
    /\ processed_images = <<>>
    /\ futures = 0
    /\ completed = {}
    /\ errors_logged = 0
    /\ task = <<>>
    /\ entry = NoEntry
    /\ total_downloaded = 0
    /\ total_skipped = 0
    /\ total_images = 0
    /\ total_albums = 0
    /\ total_folders = 0
    /\ total_metadata_saved = 0
    /\ total_album_metadata_saved = 0
    /\ total_duplicates = 0
    /\ total_renamed = 0
    /\ failed_downloads = <<>>
    /\ duplicate_log = <<>>
    /\ renamed_files = <<>>
    /\ skipped_log = <<>>

NextRun ==
    \/ RootFetch
    \/ TopFolder
    \/ FolderStart
    \/ AlbumStart
    \/ FetchPage
    \/ AlbumFetched
    \/ PreprocessStep
    \/ PreprocessDone
    \/ Submit
    \/ \E t \in TaskIds : T_Start(t)
    \/ \E t \in TaskIds : T_Quarantine(t)
    \/ \E t \in TaskIds : T_Counter(t)
    \/ \E t \in TaskIds : T_SkipLoad(t)
    \/ \E t \in TaskIds : T_SkipStore(t)
    \/ \E t \in TaskIds : T_SkipLog(t)
    \/ \E t \in TaskIds : T_Resolve(t)
    \/ \E t \in TaskIds : T_Get(t)
    \/ \E t \in TaskIds : T_Open(t)
    \/ \E t \in TaskIds : T_Stream(t)
    \/ \E t \in TaskIds : T_Metadata(t)
    \/ \E t \in TaskIds : T_MetadataWrite(t)
    \/ \E t \in TaskIds : T_MetadataLoad(t)
    \/ \E t \in TaskIds : T_MetadataStore(t)
    \/ \E t \in TaskIds : T_DownloadedLoad(t)
    \/ \E t \in TaskIds : T_DownloadedStore(t)
    \/ \E t \in TaskIds : T_FailLog(t)
    \/ \E t \in TaskIds : T_FailExists(t)
    \/ \E t \in TaskIds : T_Unlink(t)
    \/ \E t \in TaskIds : Collect(t)
    \/ AlbumReturn
    \/ NextAlbum
    \/ SubfoldersFetch
    \/ SubfolderEnter
    \/ FolderReturn
    \/ WriteAuditLogs

SpecRun == InitRun /\ [][NextRun]_vars /\ WF_vars(NextRun)

(***************************************************************************)
PlanComplete == pc = "pre" /\ idx = Len(images)

\* The records of the first idx positions, by 1-based position.
Seen == 1..idx

\* original_filename of the record at 1-based position p.
OriginalAt(p) == OriginalFilename(images[p], p - 1)

\* Two records share an ImageKey, or both lack one and share a Uri.
SameIdentity(r, s) ==
    \/ r.ImageKey # <<>> /\ r.ImageKey = s.ImageKey
    \/ r.ImageKey = <<>> /\ s.ImageKey = <<>> /\ r.Uri # <<>> /\ r.Uri = s.Uri

\* The plan entries made from the record at 1-based position p.
EntriesOf(p) == {e \in 1..Len(processed_images) : processed_images[e].pos = p - 1}

\* C1: at every point of the pre-processing loop, for every input sequence, the
\* final filenames of the plan entries emitted so far are pairwise distinct.
C1_PlanFilenamesDistinct ==
    \A e, f \in 1..Len(processed_images) :
        e # f => processed_images[e].final_filename # processed_images[f].final_filename

\* C1 witness: a finished plan of three entries, two of them renamed.
C1_Witness ==
    /\ PlanComplete
    /\ Len(processed_images) = 3
    /\ Len(renamed_files) = 2

C5_FirstOccurrenceKeepsName ==
    \A e \in 1..Len(processed_images) :
        LET original == OriginalAt(processed_images[e].pos + 1)
        IN  (\A f \in 1..(e - 1) :
                 OriginalAt(processed_images[f].pos + 1) # original)
            => processed_images[e].final_filename = original

(***************************************************************************)
(* Properties of an album's download tasks (Spec).                         *)
(***************************************************************************)
\* The album's downloads have been dispatched (or have all ended).
Dispatched == pc \in {"submit", "wait", "returned"} /\ processed_images # <<>>

\* process_album has returned from an album that had a plan.
Returned == pc = "returned" /\ task # <<>>

\* The tasks of the album that ended with `result`.
Ended(result) == {t \in 1..Len(task) : task[t].pc = "done" /\ task[t].result = result}

\* The entries a log has gained since the album's downloads were dispatched.
Gained(log, before) == {i \in (before + 1)..Len(log) : TRUE}

\* The paths of the primary tree that hold a file.
PrimaryPaths(files) == {p \in DOMAIN files : p.tree = "primary"}

\* sub occurs in s as a run of consecutive elements.
Contains(s, sub) ==
    \E i \in 0..(Len(s) - Len(sub)) : SubSeq(s, i + 1, i + Len(sub)) = sub

\* log extends into log2 by appending at its end.
Extends(log, log2) ==
    /\ Len(log) <= Len(log2)
    /\ SubSeq(log2, 1, Len(log)) = log

\* C2: every file that was on disk (in the primary tree or under Skipped_Images)
\* when the album's downloads were dispatched is still there, as it was: no task
\* of the album has opened it for writing, truncated it or removed it, whatever
\* the tasks' outcomes and interleaving.
C2_ExistingFilesUntouched ==
    Dispatched =>
        \A p \in DOMAIN entry.fs : Exists(fs, p) /\ fs[p] = entry.fs[p]

\* C2 witness: an album has returned whose downloads started against existing
\* files, where one task wrote its image under Skipped_Images and another failed
\* after URL resolution.
C2_Witness ==
    /\ Returned
    /\ \E p \in DOMAIN entry.fs : p.tree = "Skipped_Images"
    /\ \E t \in Ended("True") : task[t].download_path.tree = "Skipped_Images"
    /\ \E t \in Ended("False") : task[t].error.type # "none"

\* Every planned destination path held a file when the downloads were dispatched.
ResumeCase ==
    /\ Dispatched
    /\ \A e \in 1..Len(processed_images) :
          Exists(entry.fs, Primary(album_path, processed_images[e].final_filename))

FailsNow(t) ==
    /\ t \in 1..Len(task)
    /\ t \in 1..Len(task')
    /\ task[t].pc # "done"
    /\ task'[t].pc = "done"
    /\ task'[t].error.type # "none"

\* C6: at the moment a task ends after a failure that followed URL resolution
\* (error status, timeout, other exception), no file is at the path the task was
\* writing to (the destination, or its quarantine path), and the failure log holds
\* exactly one event of this album with the task's filename, whose reason contains
\* the status code when the failure was an HTTP error.
C6_FailureLeavesNoFile ==
    [][\A t \in TaskIds :
          FailsNow(t) =>
              /\ ~Exists(fs', task'[t].download_path)
              /\ \E i \in Gained(failed_downloads', entry.failed_downloads) :
                    /\ failed_downloads'[i].filename = task'[t].filename
                    /\ failed_downloads'[i].album = album_name
                    /\ failed_downloads'[i].reason # <<>>
                    /\ task'[t].error.type = "HTTPError" =>
                          Contains(failed_downloads'[i].reason,
                                   DecStr(task'[t].error.status_code))
                    /\ \A j \in Gained(failed_downloads', entry.failed_downloads) :
                          failed_downloads'[j].filename = task'[t].filename => j = i]_vars

\* C6 witness: a task whose stream broke after it had opened its file has removed
\* the partial file and ended, and a task that got an error status has ended.
C6_Witness ==
    /\ \E t \in Ended("False") :
          task[t].error.type = "Timeout" /\ ~Exists(fs, task[t].download_path)
    /\ \E t \in Ended("False") : task[t].error.type = "HTTPError"

\* C7 (as claimed): when process_album returns, total_downloaded has grown by the
\* number of tasks that returned True, total_skipped by the number of skipped
\* events appended, and failed_downloads by one entry per task that returned False.
C7_NoUpdateLost ==
    Returned =>
        /\ total_downloaded - entry.total_downloaded = Cardinality(Ended("True"))
        /\ total_skipped - entry.total_skipped = Len(skipped_log) - entry.skipped_log
        /\ Len(failed_downloads) - entry.failed_downloads = Cardinality(Ended("False"))

\* C8 (as claimed): no run counter ever decreases from one state to the next, and
\* each of the four logs only grows by appending at its end.
C8_CountersAndLogsMonotonic ==
    [][/\ total_folders' >= total_folders
       /\ total_albums' >= total_albums
       /\ total_images' >= total_images
       /\ total_downloaded' >= total_downloaded
       /\ total_skipped' >= total_skipped
       /\ total_duplicates' >= total_duplicates
       /\ total_renamed' >= total_renamed
       /\ total_metadata_saved' >= total_metadata_saved
       /\ total_album_metadata_saved' >= total_album_metadata_saved
       /\ Extends(failed_downloads, failed_downloads')
       /\ Extends(duplicate_log, duplicate_log')
       /\ Extends(renamed_files, renamed_files')
       /\ Extends(skipped_log, skipped_log')]_vars

\* C9: no outcome of a download task (True, False or an exception) aborts the album
\* or the run: process_album is never left by an exception; when it returns, every
\* plan entry has been submitted and its task has run to its end; and from every
\* state but the end of the folder's album loop the walk has a next step.
C9_FailureNeverAborts ==
    /\ pc # "crashed"
    /\ Returned =>
          /\ Len(task) = Len(processed_images)
          /\ \A t \in 1..Len(task) : task[t].pc = "done"
    /\ pc # "done" => ENABLED Next

\* C9 witness: the walk is waiting for the downloads of the folder's second album
\* after a task of the first album raised an exception and another failure was
\* recorded.
C9_Witness ==
    /\ album_i = 2
    /\ pc = "wait"
    /\ errors_logged > 0
    /\ entry.failed_downloads > 0

(***************************************************************************)
(* Properties of fetch_images (SpecFetch).                                 *)
(***************************************************************************)
RECURSIVE Followed(_, _)
\* The images of the pages the cursors visit from page p up to, not including,
\* page u (to the end of the chain when u = 0).
Followed(p, u) ==
    IF p = u \/ p = 0 THEN <<>>
    ELSE Pages[p].AlbumImage \o Followed(Pages[p].NextPage, u)

\* fetch_images has returned after a failed request.
FetchFailed == pc = "fetched" /\ fetch_error # "none"

RECURSIVE CursorPath(_)
\* The pages the NextPage cursors lead through from page p, in order.
CursorPath(p) == IF p = 0 THEN <<>> ELSE <<p>> \o CursorPath(Pages[p].NextPage)

\* fetch_images has returned and no request of it failed.
FetchSucceeded == pc = "fetched" /\ fetch_error = "none"

\* C11: when every page request succeeds, fetch_images follows the NextPage cursor
\* from the first page until a page has none, sends exactly one request per page of
\* that chain, and returns the pages' images concatenated in cursor order.
C11_AllPagesInCursorOrder ==
    FetchSucceeded =>
        /\ requested = CursorPath(1)
        /\ \A i, j \in 1..Len(requested) : requested[i] = requested[j] => i = j
        /\ Len(requested) = Len(Pages)
        /\ images = Followed(1, 0)

\* C11 witness: an album of several pages, stored out of cursor order, with images
\* on more than one page, was fetched without a failure.
C11_Witness ==
    /\ FetchSucceeded
    /\ Len(requested) >= 3
    /\ requested # [i \in 1..Len(requested) |-> i]
    /\ \E i, j \in 1..Len(Pages) : i # j /\ Pages[i].AlbumImage # <<>>
                                          /\ Pages[j].AlbumImage # <<>>
                                          /\ Pages[i].AlbumImage # Pages[j].AlbumImage

(***************************************************************************)
(* get_image_download_url: which source the returned URL comes from.       *)
(***************************************************************************)
\* The text a JSON value of the record yields: an object's Uri or a string.
TextOf(v) == IF v.type = "dict" THEN v.Uri ELSE IF v.type = "str" THEN v.value ELSE ""

\* The sizes in the order Original, X5Large, X4Large, ..., Large.
SizeOrder == <<"ImageSizeOriginal", "ImageSizeX5Large", "ImageSizeX4Large",
               "ImageSizeX3Large", "ImageSizeX2Large", "ImageSizeXLarge",
               "ImageSizeLarge">>

\* What each of the four sources yields for the call's record and the answers of
\* the API, "" for nothing: a source whose sub-request answers another status than
\* 200, or raises, yields nothing.
Yields ==
    LET info == resolving.image_info
        size == resolving.api.ImageSizeDetails
        largest == resolving.api.LargestImage
        listed == {i \in 1..Len(SizeOrder) : SizeOrder[i] \in size.sizes}
    IN  << IF TextOf(info.Uris.ImageSizeDetails) # "" /\ size.status_code = 200
                /\ listed # {}
           THEN "size:" \o SizeOrder[CHOOSE i \in listed : \A j \in listed : i <= j]
           ELSE "",
           info.ArchivedUri,
           IF TextOf(info.Uris.LargestImage) # "" /\ largest.status_code = 200
           THEN largest.Url ELSE "",
           TextOf(info.Uris.ImageDownload) >>

\* C12: get_image_download_url returns the URL of the first of the sources
\* size-details (Original, then X5Large down to Large), ArchivedUri, LargestImage,
\* ImageDownload that yields one; a status other than 200 or an exception at a
\* source falls through to the next; the result is falsy only when no source yields
\* a URL.  The sub-requests are sent in that order and none after the source that
\* answered.
C12_FirstYieldingSourceWins ==
    resolving.pc = "returned" =>
        LET yielding == {i \in 1..4 : Yields[i] # ""}
        IN  /\ yielding # {} =>
                 resolving.image_url = Yields[CHOOSE i \in yielding : \A j \in yielding : i <= j]
            /\ yielding = {} <=> resolving.image_url = ""
            /\ resolving.asked \in {<<>>, <<"ImageSizeDetails">>, <<"LargestImage">>,
                                     <<"ImageSizeDetails", "LargestImage">>}
            /\ (Yields[1] # "" \/ Yields[2] # "") =>
                 resolving.asked \in {<<>>, <<"ImageSizeDetails">>}

\* C12 witness: the size-details request failed, the record has no ArchivedUri, and
\* the call returned the URL of the LargestImage sub-resource.
C12_Witness ==
    /\ resolving.pc = "returned"
    /\ resolving.asked = <<"ImageSizeDetails", "LargestImage">>
    /\ resolving.api.ImageSizeDetails.status_code # 200
    /\ resolving.image_info.ArchivedUri = ""
    /\ resolving.image_url = "largest"

(***************************************************************************)
(* download_image when no download URL is found.                           *)
(***************************************************************************)
\* Task t has returned False at line 284: no exception was caught.
NoUrlEnded(t) ==
    /\ t \in 1..Len(task)
    /\ task[t].pc = "done" /\ task[t].result = "False" /\ task[t].error = NoError

\* The failure events recorded for task t since the album's downloads were
\* dispatched.
FailuresOf(t) ==
    {i \in Gained(failed_downloads, entry.failed_downloads) :
        failed_downloads[i].filename = task[t].filename}

\* Task t has one failure event, with the no-URL reason, and has created or written
\* no file.
NoUrlOutcome(t) ==
    /\ Cardinality(FailuresOf(t)) = 1
    /\ \A i \in FailuresOf(t) : /\ failed_downloads[i].reason = NoUrlReason
                                 /\ failed_downloads[i].album = album_name
    /\ \A path \in DOMAIN fs : fs[path].ino # Writer(t) /\ fs[path].by # Writer(t)
    /\ Exists(entry.fs, task[t].original_download_path) =>
          /\ Exists(fs, task[t].original_download_path)
          /\ fs[task[t].original_download_path] = entry.fs[task[t].original_download_path]

\* C13: when URL resolution finds no source for a plan entry, download_image
\* records exactly one failure event for it, creates and writes no file, leaves
\* total_downloaded unchanged and returns False; this stays so until the album
\* returns.
C13_NoUrlRecordsOneFailure ==
    [][\A t \in TaskIds :
          /\ (NoUrlEnded(t))' => (NoUrlOutcome(t))'
          /\ (t \in 1..Len(task) /\ task[t].pc = "resolve" /\ (NoUrlEnded(t))') =>
                 /\ total_downloaded' = total_downloaded
                 /\ fs' = fs
                 /\ failed_downloads' =
                       FailureLogged(failed_downloads, task[t], NoUrlReason)]_vars

\* C13 witness: a task returned False for lack of a URL, its destination holds no
\* file, and another task of the album downloaded its image.
C13_Witness ==
    /\ \E t \in TaskIds : /\ NoUrlEnded(t)
                           /\ ~Exists(fs, task[t].download_path)
                           /\ task[t].download_path.tree = "primary"
    /\ Ended("True") # {}

(***************************************************************************)
(* sanitize_filename.                                                      *)
(***************************************************************************)
unnamed == <<"u", "n", "n", "a", "m", "e", "d">>

\* sanitize_filename has been called on the input, and on what that returned.
SanitizedTwice == Len(sanitizing.results) >= 2

\* C14 (as claimed): sanitize_filename(sanitize_filename(x)) equals
\* sanitize_filename(x) for every name x, also for a name longer than the
\* truncation length that is cut just after a space or a dot.
C14_SanitizeIdempotent ==
    SanitizedTwice => sanitizing.results[2] = sanitizing.results[1]

\* C15: for every name, the result of sanitize_filename has none of the reserved
\* characters < > : " / \ | ? * and at most 200 characters.
C15_NoReservedAndShort ==
    \A i \in 1..Len(sanitizing.results) :
        LET out == sanitizing.results[i]
        IN  /\ \A j \in 1..Len(out) :
                  out[j] \notin {"<", ">", ":", "\"", "/", "\\", "|", "?", "*"}
            /\ Len(out) <= 200

\* C15 witness: a name of more than 200 characters that has reserved characters
\* before and after position 200 has been sanitized.
C15_Witness ==
    /\ Len(sanitizing.results) >= 1
    /\ Len(sanitizing.input) > 200
    /\ \E i, j \in 1..Len(sanitizing.input) :
          /\ i <= 200 /\ j > 200
          /\ sanitizing.input[i] \in {"<", "?"} /\ sanitizing.input[j] \in {"<", "?"}

\* The name is made up only of reserved characters, spaces and dots.
AllInvalid(name) ==
    \A i \in 1..Len(name) :
        name[i] \in {"<", ">", ":", "\"", "/", "\\", "|", "?", "*", " ", "."}

\* The name is made up only of spaces and dots.
AllStripped(name) == \A i \in 1..Len(name) : name[i] \in {" ", "."}

\* C16 (as claimed): for the empty name and for every name made up only of
\* reserved characters, spaces and dots, sanitize_filename returns 'unnamed'.
C16_AllInvalidYieldsPlaceholder ==
    (Len(sanitizing.results) >= 1 /\ AllInvalid(sanitizing.input)) =>
        sanitizing.results[1] = unnamed

\* C16 (amended): for the empty name and for every name made up only of spaces
\* and dots, sanitize_filename returns 'unnamed'; a name made up only of reserved
\* characters, spaces and dots that has a reserved character is not replaced by
\* 'unnamed': its result starts with the underscore of its first reserved character.
C16_AllStrippedYieldsPlaceholder ==
    (Len(sanitizing.results) >= 1 /\ AllInvalid(sanitizing.input)) =>
        IF AllStripped(sanitizing.input)
        THEN sanitizing.results[1] = unnamed
        ELSE sanitizing.results[1] # unnamed /\ sanitizing.results[1][1] = "_"

\* C16 witness: a name of several spaces and dots has been sanitized to 'unnamed'.
C16_Witness ==
    /\ Len(sanitizing.results) >= 1
    /\ Len(sanitizing.input) >= 2
    /\ AllStripped(sanitizing.input)
    /\ \E i, j \in 1..Len(sanitizing.input) :
          sanitizing.input[i] = " " /\ sanitizing.input[j] = "."
    /\ sanitizing.results[1] = unnamed

(***************************************************************************)
(* Collision renaming in the pre-processing loop (SpecPlan).               *)
(***************************************************************************)
\* The final filenames of the plan entries before entry e.
UsedBefore(e) == {processed_images[f].final_filename : f \in 1..(e - 1)}

\* stem_k + extension of a filename.
Numbered(filename, k) ==
    PathStem(filename) \o <<"_">> \o DecStr(k) \o PathSuffix(filename)

\* The rename events recorded for plan entry e.
RenamesOf(e) ==
    {r \in 1..Len(renamed_files) :
        renamed_files[r].renamed = processed_images[e].final_filename}

\* C17: a plan entry whose filename is already used in the plan (by another
\* identity: an image of an identity already seen has no entry) is named
\* stem_k + extension for the least k >= 2 whose name is not yet used in the plan,
\* and has exactly one rename event (original name, final name, album); an entry
\* whose filename is unused keeps it and has no rename event; there are no other
\* rename events.
C17_LeastFreeCounter ==
    /\ \A e \in 1..Len(processed_images) :
          LET original == OriginalAt(processed_images[e].pos + 1)
              final == processed_images[e].final_filename
          IN  IF original \in UsedBefore(e)
              THEN /\ used_filenames[original] #
                        UniqueId(processed_images[e].image, processed_images[e].pos)
                   /\ \E k \in 2..(e + 1) :
                         /\ final = Numbered(original, k)
                         /\ final \notin UsedBefore(e)
                         /\ \A j \in 2..(k - 1) : Numbered(original, j) \in UsedBefore(e)
                   /\ Cardinality(RenamesOf(e)) = 1
                   /\ \A r \in RenamesOf(e) :
                         /\ renamed_files[r].original = original
                         /\ renamed_files[r].album = album_name
              ELSE /\ final = original
                   /\ RenamesOf(e) = {}
    /\ \A r \in 1..Len(renamed_files) : \E e \in 1..Len(processed_images) : r \in RenamesOf(e)
    /\ total_renamed = Len(renamed_files)

\* C17 witness: a finished plan whose third entry found both its filename and
\* stem_2 used and was named stem_3, next to an entry that kept its name.
C17_Witness ==
    /\ PlanComplete
    /\ Len(processed_images) = 3
    /\ processed_images[3].final_filename = Numbered(OriginalAt(processed_images[3].pos + 1), 3)
    /\ RenamesOf(1) = {}

(***************************************************************************)
(* The executor of process_album (Spec).                                   *)
(***************************************************************************)
\* The main thread is inside the `with ThreadPoolExecutor` block of an album.
InExecutor == pc \in {"submit", "wait"}

\* C18: process_album returns only after every download task it dispatched has
\* finished: whenever the main thread is outside the executor block of an album
\* (between albums, fetching or planning the next one, or at the end of the walk),
\* no download task is queued or running, so the tasks of two albums never run at
\* the same time.
C18_NoTaskOutsideItsAlbum ==
    ~InExecutor =>
        /\ Running = {}
        /\ \A t \in 1..Len(task) : task[t].pc = "done" /\ t \in completed

\* C18 witness: the second album of the folder has returned from its downloads,
\* which were dispatched when a task of the first album had written a file and
\* another had failed.
C18_Witness ==
    /\ Returned
    /\ album_i = 2
    /\ \E path \in DOMAIN entry.fs : entry.fs[path].by[1] = 1 /\ entry.fs[path].by[2] >= 1
    /\ entry.failed_downloads > 0

\* C19: at every moment at most 5 download_image tasks are in progress, whatever
\* the number of plan entries of the album.
C19_AtMostFiveInProgress ==
    Cardinality({t \in 1..Len(task) : task[t].pc \notin {"queued", "done"}}) <= 5

\* C19 witness: five tasks of an album of more than five plan entries are in
\* progress while a submitted task waits for a worker.
C19_Witness ==
    /\ Len(processed_images) > 5
    /\ Cardinality({t \in 1..Len(task) : task[t].pc \notin {"queued", "done"}}) = 5
    /\ \E t \in 1..Len(task) : task[t].pc = "queued"

\* Every image of the album has been looked at by the pre-processing loop, in input
\* order: each has a plan entry or a duplicate event, and the entries are in the
\* order of their images.
PlanCoversAlbum ==
    /\ idx = Len(images)
    /\ Len(processed_images)
         + Cardinality({d \in 1..Len(duplicate_log) : duplicate_log[d].album = album_name})
         = Len(images)
    /\ \A e, f \in 1..Len(processed_images) :
          e < f => processed_images[e].pos < processed_images[f].pos

\* C20: within an album the plan is computed one image after the other, in input
\* order, by the main thread alone, and is complete before the first download task
\* is dispatched; once the executor of the album is entered, no duplicate or rename
\* event is recorded and the plan does not change.
C20_PlanBeforeDispatch ==
    [][/\ InExecutor' => PlanCoversAlbum'
       /\ (idx' # idx /\ pc = "pre") => (idx' = idx + 1 /\ task = <<>> /\ futures = 0)
       /\ InExecutor =>
             UNCHANGED <<processed_images, seen_image_keys, used_filenames>>
       /\ (InExecutor \/ task # <<>>) =>
             UNCHANGED <<duplicate_log, renamed_files, total_duplicates,
                         total_renamed>>]_vars

\* C20 witness: tasks of an album are in progress whose plan of three entries was
\* made with a rename event.
C20_Witness ==
    /\ pc = "wait"
    /\ Cardinality(Running) >= 2
    /\ Len(processed_images) = 3
    /\ renamed_files # <<>>

(***************************************************************************)
(* The walk: what the claims about download_all and process_folder say.    *)
(***************************************************************************)
RECURSIVE Nodes(_)
\* The folders of a listing and below it.
Nodes(list) ==
    IF list = <<>> THEN {}
    ELSE {Head(list)} \cup Nodes(Head(list).Folder) \cup Nodes(Tail(list))

\* The events of walk.visited that are calls of process_folder.
FolderEvents == {i \in DOMAIN walk.visited : "albums" \in DOMAIN walk.visited[i]}

VisitedFolders == {walk.visited[i].Name : i \in FolderEvents}

\* The folders listed after folder n in the listing that holds it.
LaterSiblings(n) ==
    LET lists == {remote.Folder} \cup {m.Folder : m \in Nodes(remote.Folder)}
    IN  UNION { {list[j].Name : j \in {k \in DOMAIN list : k > i}} :
                   <<list, i>> \in {<<l, k>> \in UNION {{l2} \X DOMAIN l2 : l2 \in lists} :
                                       l[k] = n} }

\* Folders whose album listing was refused or raised.
AlbumListFailed == {walk.visited[i].Name : i \in {k \in FolderEvents :
                                                     walk.visited[k].albums = "error"}}

\* C21: a folder whose album listing fails (another status than 200, or an
\* exception) does not stop the walk: the run goes on, it ends with the
\* summary, the folder's listed subfolders have been entered and so have the
\* folders listed after it.
C21_AlbumListFailureIsLocal ==
    \A n \in Nodes(remote.Folder) :
       n.Name \in AlbumListFailed =>
          /\ pc # "exit" => ENABLED NextWalk
          /\ pc = "exit" =>
                /\ walk.exit_status = "0"
                /\ n.Name \notin walk.unlisted =>
                      {n.Folder[j].Name : j \in DOMAIN n.Folder} \subseteq VisitedFolders
                /\ LaterSiblings(n) \subseteq VisitedFolders

C21_Witness ==
    /\ pc = "exit"
    /\ <<"F">> \in AlbumListFailed
    /\ <<"F">> \notin walk.unlisted
    /\ {<<"G">>, <<"H">>, <<"K">>} \subseteq VisitedFolders

\* What the walk did, in order: the folders entered and the albums materialized.
Trace ==
    [i \in DOMAIN walk.visited |->
        <<IF i \in FolderEvents THEN "folder" ELSE "album", walk.visited[i].Name>>]

\* The albums of a listing that have a Uri, in the listing's order.
RECURSIVE AlbumsOf(_)
AlbumsOf(listing) ==
    IF listing = <<>> THEN <<>>
    ELSE (IF Head(listing).Uri = <<>> THEN <<>> ELSE << <<"album", Head(listing).Name>> >>)
           \o AlbumsOf(Tail(listing))

\* The depth-first order of a listing of folders: a folder, then its albums
\* if they were listed, then its subfolders if they were listed, then the
\* folders listed after it.
RECURSIVE Preorder(_)
Preorder(list) ==
    IF list = <<>> THEN <<>>
    ELSE LET n == Head(list)
         IN  << <<"folder", n.Name>> >>
               \o (IF n.Name \in AlbumListFailed THEN <<>> ELSE AlbumsOf(n.Album))
               \o (IF n.Name \in walk.unlisted THEN <<>> ELSE Preorder(n.Folder))
               \o Preorder(Tail(list))

\* The walk went through the top-level listing and reached the summary.
WalkCompleted ==
    /\ pc = "exit"
    /\ walk.exit_status = "0"
    /\ walk.folders = remote.Folder

\* C22: the walk is depth-first in the order of the API's listings: a folder,
\* then all its albums in listing order, then its subfolders in listing
\* order; no folder is entered twice, total_folders counts the folders
\* entered, and a completed walk has entered every folder that the
\* successful listings reach.
C22_DepthFirstInApiOrder ==
    /\ total_folders = Cardinality(FolderEvents)
    /\ \A i, j \in FolderEvents : walk.visited[i].Name = walk.visited[j].Name => i = j
    /\ WalkCompleted => Trace = Preorder(remote.Folder)

C22_Witness ==
    /\ WalkCompleted
    /\ Len(Trace) = 10
    /\ total_folders = 5
    /\ Trace[4] = <<"folder", <<"G">>>>
    /\ Trace[7] = <<"folder", <<"H">>>>

\* download_all is over without having received the top-level listing.
RootFailed == pc = "exit" /\ walk.folder_i = 0

\* C23: when the request for the top-level folders is refused or raises,
\* download_all ends the run with a non-zero exit status.
C23_RootFailureExitsNonZero == RootFailed => walk.exit_status = "1"

\* The audit file of `name` as this run wrote it, if it did.
WrittenNow(name) ==
    LET path == Primary(<<>>, <<name>>)
    IN  Exists(fs, path) /\ fs[path].by = <<0, 1>>

\* The file of `name` holds one block per entry of log, in the log's order.
BlockPerEntry(name, log) ==
    LET blocks == fs[Primary(<<>>, <<name>>)].data.blocks
    IN  /\ Len(blocks) = Len(log)
        /\ \A i \in 1..Len(log) : blocks[i] = Block(name, log[i])

AuditFileMatches(name, log) ==
    /\ WrittenNow(name) <=> log # <<>>
    /\ WrittenNow(name) => BlockPerEntry(name, log)

\* C24: at the end of a completed walk, each of the four audit files is
\* written if and only if its log holds an event, and then it holds one
\* record block per event, in the order the events were appended.
C24_AuditFilesMatchLogs ==
    (pc = "exit" /\ walk.exit_status = "0" /\ walk.folder_i > 0) =>
        /\ AuditFileMatches("failed_downloads.txt", failed_downloads)
        /\ AuditFileMatches("duplicates.txt", duplicate_log)
        /\ AuditFileMatches("renamed_files.txt", renamed_files)
        /\ AuditFileMatches("skipped_images.txt", skipped_log)

C24_Witness ==
    /\ pc = "exit"
    /\ Len(failed_downloads) = 2
    /\ failed_downloads[1] # failed_downloads[2]
    /\ WrittenNow("failed_downloads.txt")
    /\ duplicate_log = <<>>
    /\ ~WrittenNow("duplicates.txt")
    /\ skipped_log = <<>>
    /\ Exists(fs, Primary(<<>>, <<"skipped_images.txt">>))

(***************************************************************************)
(* The metadata helpers.                                                   *)
(***************************************************************************)
\* A call of the helper under test is made in this step.
Saved == saving'.calls = saving.calls + 1

\* The sidecar the call derives from its arguments.
SidecarPath ==
    IF saving.target = "image"
    THEN Primary(saving.path.dir, WithSuffixTxt(saving.path.name))
    ELSE Primary(saving.path,
                 sanitize_filename(SpacesToUnderscores(saving.info.Name))
                    \o <<".", "t", "x", "t">>)

\* The labelled lines of the present fields, first to third.
Line(label, value) == IF value = <<>> THEN <<>> ELSE << <<label, value>> >>

SidecarLines ==
    IF saving.target = "image"
    THEN Line("Title", saving.info.Title) \o Line("Caption", saving.info.Caption)
           \o Line("Keywords", saving.info.Keywords)
    ELSE Line("Gallery Title", saving.info.Name)
           \o Line("Gallery Description", saving.info.Description)
           \o Line("Keywords", saving.info.Keywords)

\* C25: a call of save_image_metadata or save_album_metadata changes neither
\* the files nor the metadata counters when the sidecar exists or all three
\* fields are empty; otherwise it creates the sidecar, and only it, with the
\* present fields in the fixed order and adds one to its own counter and
\* nothing to the other; a second call with the same arguments changes
\* nothing.
C25_MetadataSavedOnce ==
    [][Saved =>
          /\ IF Exists(fs, SidecarPath) \/ SidecarLines = <<>>
             THEN UNCHANGED <<fs, total_metadata_saved, total_album_metadata_saved>>
             ELSE /\ DOMAIN fs' = DOMAIN fs \cup {SidecarPath}
                  /\ \A q \in DOMAIN fs : fs'[q] = fs[q]
                  /\ fs'[SidecarPath].data = SidecarLines
                  /\ total_metadata_saved' =
                        total_metadata_saved + (IF saving.target = "image" THEN 1 ELSE 0)
                  /\ total_album_metadata_saved' =
                        total_album_metadata_saved + (IF saving.target = "album" THEN 1 ELSE 0)
          /\ saving.calls >= 1 =>
                UNCHANGED <<fs, total_metadata_saved, total_album_metadata_saved>>]_vars

C25_Witness ==
    /\ saving # <<>>
    /\ saving.calls = 2
    /\ saving.target = "image"
    /\ Exists(fs, SidecarPath)
    /\ fs[SidecarPath].by = <<0, 1>>
    /\ Len(fs[SidecarPath].data) = 2
    /\ total_metadata_saved = 1

C25_WitnessAlbum ==
    /\ saving # <<>>
    /\ saving.calls = 2
    /\ saving.target = "album"
    /\ Exists(fs, SidecarPath)
    /\ fs[SidecarPath].by = <<0, 1>>
    /\ total_album_metadata_saved = 1

(***************************************************************************)
(* Redirection, quarantine and outcomes.                                   *)
(***************************************************************************)
\* The run started against an empty download root: no file of before it.
FreshRoot == \A q \in DOMAIN fs : fs[q].ino # Before

\* C26: in a run started against an empty download root no task finds its
\* destination existing: no skipped event is recorded and no file is written
\* under Skipped_Images.
C26_NoRedirectionOnFreshRoot ==
    FreshRoot =>
       /\ skipped_log = <<>>
       /\ \A q \in DOMAIN fs : q.tree # "Skipped_Images"

\* Task t has settled where it writes (lines 250-271 are behind it).
Resolved_Path(t) == task[t].pc \notin {"queued", "quarantine", "counter"}

\* C27: within one album no two download_image tasks settle on the same
\* write path, and every file the run creates is written by the one task
\* that created it.
C27_OneWriterPerPath ==
    /\ \A t, u \in 1..Len(task) :
          (t # u /\ Resolved_Path(t) /\ Resolved_Path(u)) =>
              task[t].download_path # task[u].download_path
    /\ \A q \in DOMAIN fs : fs[q].ino # Before => fs[q].by = fs[q].ino

\* The files this run has placed under Skipped_Images.
Quarantined == {q \in DOMAIN fs : q.tree = "Skipped_Images" /\ fs[q].ino # Before}

\* C28: when process_album returns, a file exists at the quarantine path of
\* every skipped event, and total_skipped is the number of files the run has
\* placed under Skipped_Images.
C28_SkippedEventsHaveFiles ==
    Returned =>
       /\ \A i \in DOMAIN skipped_log : Exists(fs, skipped_log[i].skipped_path)
       /\ total_skipped = Cardinality(Quarantined)

(***************************************************************************)
(* The pre-processing loop's accounts.                                     *)
(***************************************************************************)
\* The true-duplicate events recorded for the album being processed.
AlbumDuplicates == {i \in DOMAIN duplicate_log : duplicate_log[i].album = album_name}

\* The images the pre-processing loop has gone through.
Preprocessed ==
    IF pc = "pre" THEN idx
    ELSE IF pc \in {"submit", "wait", "returned"} THEN Len(images)
    ELSE 0

\* C29: every image the loop has gone through gave one plan entry or one
\* true-duplicate event, so after the loop plan entries plus the album's
\* duplicate events are the images fetched; total_images grows by the images
\* fetched, and only so; total_duplicates and total_renamed are the lengths
\* of their logs; and a step that records a duplicate neither records a
\* rename nor emits a plan entry.
C29_PlanAccounts ==
    /\ [](/\ pc \in {"pre", "submit", "wait", "returned"} =>
                Len(processed_images) + Cardinality(AlbumDuplicates) = Preprocessed
          /\ total_duplicates = Len(duplicate_log)
          /\ total_renamed = Len(renamed_files))
    /\ [][/\ (pc = "fetched" /\ pc' # "fetched") =>
                total_images' = total_images + Len(images)
          /\ total_images' # total_images => pc = "fetched"
          /\ idx' = idx + 1 =>
                \/ /\ Len(processed_images') = Len(processed_images) + 1
                   /\ UNCHANGED duplicate_log
                \/ /\ Len(duplicate_log') = Len(duplicate_log) + 1
                   /\ UNCHANGED <<processed_images, renamed_files, total_renamed>>]_vars

C29_Witness ==
    /\ pc = "returned"
    /\ Len(images) = 2
    /\ Len(processed_images) = 1
    /\ Cardinality(AlbumDuplicates) = 1
    /\ total_images = 2
    /\ renamed_files = <<>>

C29_WitnessRenamed ==
    /\ pc = "returned"
    /\ Len(images) = 3
    /\ Len(processed_images) = 3
    /\ Len(renamed_files) = 1
    /\ duplicate_log = <<>>

\* C30: every dispatched plan entry has one task, and every task that is
\* over has either returned True with no failure event of its own, or
\* returned False with exactly one; total_downloaded is written only by a
\* task that then returns True, as one more than the value it read.
C30_OneOutcomePerEntry ==
    /\ [](/\ \A t \in 1..Len(task) :
                task[t].pc = "done" =>
                   \/ task[t].result = "True" /\ FailuresOf(t) = {}
                   \/ task[t].result = "False" /\ Cardinality(FailuresOf(t)) = 1
          /\ Returned =>
                /\ Len(task) = Len(processed_images)
                /\ \A t \in 1..Len(task) : task[t].pc = "done")
    /\ [][total_downloaded' # total_downloaded =>
             \E t \in 1..Len(task) :
                /\ task[t].pc = "downloaded_store"
                /\ task'[t].pc = "done" /\ task'[t].result = "True"
                /\ total_downloaded' = task[t].loaded + 1]_vars

(***************************************************************************)
(* Identity of records.                                                    *)
(***************************************************************************)
\* C31: a record of the album is left out of the plan as a true duplicate
\* only if an earlier record shares its ImageKey or, both lacking an
\* ImageKey, shares its Uri.
C31_OnlySameIdentityCollapses ==
    \A j \in Seen :
        EntriesOf(j) = {} =>
            \E i \in Seen : i < j /\ SameIdentity(images[i], images[j])

(***************************************************************************)
(* Sidecars of an album.                                                   *)
(***************************************************************************)
\* The sidecar path of task t.
SidecarOf(t) == MetadataPath(task[t].download_path)

\* C32: when an album has been materialized into an empty directory, every
\* image that was downloaded and has metadata has a sidecar written by its
\* own task, and no task writes its sidecar to the path of another plan
\* entry's image file.
C32_OwnSidecarPerImage ==
    /\ []((Returned /\ FreshRoot) =>
             \A t \in Ended("True") :
                Sidecar(task[t].image, <<"Title", "Caption", "Keywords">>) # <<>> =>
                   /\ SidecarOf(t) # task[t].download_path
                   /\ Exists(fs, SidecarOf(t))
                   /\ fs[SidecarOf(t)].by = Writer(t))
    /\ [][\A t \in 1..Len(task) :
             (task[t].pc = "metadata_write" /\ task'[t].pc # "metadata_write") =>
                 \A u \in 1..Len(task) :
                     u # t => task[u].download_path # SidecarOf(t)]_vars

(***************************************************************************)
(* The album without a Uri.                                                *)
(***************************************************************************)
\* process_album is called on an album without a Uri in this step.
NoUriCall ==
    /\ pc = "albums"
    /\ album_i <= Len(albums)
    /\ albums[album_i].Uri = <<>>
    /\ album_i' = album_i + 1

\* C33: process_album called on an album without a Uri makes no directory,
\* sends no request and writes no file, and leaves every counter and every
\* log as it was.
C33_NoUriChangesNothing ==
    [][NoUriCall =>
          /\ pc' = "albums"
          /\ UNCHANGED <<walk, fs, requested, url, images, album_name, album_path>>
          /\ UNCHANGED <<total_folders, total_albums, total_images, total_downloaded,
                         total_skipped, total_metadata_saved, total_album_metadata_saved,
                         total_duplicates, total_renamed>>
          /\ UNCHANGED <<failed_downloads, duplicate_log, renamed_files, skipped_log>>]_vars

C33_Witness ==
    /\ pc = "albums"
    /\ walk.stack # <<>>
    /\ Top.folder.Name = <<"H">>
    /\ album_i = 2
    /\ albums # <<>>
    /\ albums[1].Uri = <<>>
    /\ \A i \in DOMAIN walk.visited : walk.visited[i].Name # <<"D">>
    /\ total_albums = 3

(***************************************************************************)
(* Termination of download_all (SpecRun).                                  *)
(***************************************************************************)
\* Task t was handed to the pool / has run to its end.
Submitted(t) == t <= Len(task)

RanToEnd(t) == t <= Len(task) /\ task[t].pc = "done"

\* C34 as stated: over a finite tree with finite pagination chains, where
\* every request returns or fails, download_all eventually finishes with
\* every reachable folder and album processed and the summary emitted.
C34_AlwaysReachesSummary == <>(WalkCompleted /\ Trace = Preorder(remote.Folder))

\* C34, amended: download_all eventually ends; every task handed to the pool
\* runs to its end; and when the top-level listing was received, the run ends
\* past the summary, with no task left and with every folder and album that
\* the successful listings reach processed in the walk's order.
C34_RunFinishes ==
    /\ <>(pc = "exit")
    /\ \A t \in TaskIds : Submitted(t) ~> RanToEnd(t)
    /\ [](pc = "exit" /\ ~RootFailed =>
             /\ WalkCompleted
             /\ Trace = Preorder(remote.Folder)
             /\ task = <<>>)

C34_Witness ==
    /\ WalkCompleted
    /\ Len(Trace) = 4
    /\ total_images = 3
    /\ Len(requested) = 0
    /\ Exists(fs, Primary(DirA, A2_JPG))
    /\ Exists(fs, Primary(<<<<"F">>, <<"G">>, <<"B">>>>, A_JPG))

====
